---- MODULE Spec2Model ----
(***************************************************************************)
(* META.js Customizer: the service configuration generator                 *)
(* (src/scripts/components/ServiceConfigGenerator.js) and the output       *)
(* manager that renders its records (components/OutputManager.js).         *)
(*                                                                         *)
(* A JavaScript string is modelled as the sequence of its characters, each *)
(* a one-character string, so that split, join, concatenation and          *)
(* toLowerCase are computed the way the code computes them.                *)
(*                                                                         *)
(* The event loop is single-threaded: a step of the model is one task      *)
(* together with the microtasks it queues.  A call that awaits fetch()      *)
(* suspends; the response arrives as a later task.  A call whose            *)
(* identifier is already cached never suspends on the network, so it, and   *)
(* a whole batch of such calls, settles within the task that issued it.     *)
(***************************************************************************)
EXTENDS Integers, Sequences, FiniteSets, TLC

VARIABLES
  faviconCache,  \* this.faviconCache : identifier -> BOOLEAN (a partial map)
  batches,       \* outstanding generateServiceConfigs calls, oldest first
  resolved,      \* the batch whose promise settled last
  staleProbes,   \* history: requests in flight at the last clearCache and not settled since
  selectedServices,       \* ServicesManager.selectedServices (a Set)
  selectedServicesOrder,  \* ServicesManager.selectedServicesOrder (an array)
  notified,      \* event.detail.services of the last servicesChanged event
  dragTimers,    \* pending 50 ms timers of the animated handleDragEnd
  currentOutput, \* OutputManager.currentOutput
  buttonsDisabled,  \* the disabled attribute of the copy and download buttons
  outputUI,      \* OutputManager's template, panel, buttons, clipboard and download
  theme,         \* ThemeManager, the system theme, data-theme and localStorage
  search,        \* the search box: its debounce timers and the searches run
  app,           \* MetaJSCustomizer: its initialization and the catalog it waits for
  preview,       \* DomainPreviewManager: the modal and the fetches in flight
  call           \* a call of one of the pure methods: its arguments, then its result

genVars == <<faviconCache, batches, resolved, staleProbes>>
selVars == <<selectedServices, selectedServicesOrder, notified, dragTimers>>
outVars == <<currentOutput, buttonsDisabled, outputUI>>
uiVars == <<theme, search>>
appVars == <<app, preview>>

vars == <<genVars, selVars, outVars, uiVars, appVars, call>>

----------------------------------------------------------------------------
(* Bounds of the model *)

MaxBatches == 2    \* generateServiceConfigs calls outstanding at once
MaxBatchLen == 2   \* identifiers in one call
MaxLabels == 3     \* dot-separated labels of a domain given to parseDomain
MaxConfigs == 2    \* records in one configsToString call
MaxDragTimers == 1 \* pending timers of the animated handleDragEnd
MaxInputs == 3     \* input events of the search input since the page was loaded
MaxOrderLen == 3   \* selected services in one reorderServices call
MaxPreviews == 3   \* fetches of domain data in flight
MaxFeedback == 1   \* writeText calls in flight and feedback timers pending

----------------------------------------------------------------------------
(* Strings *)

UpperChars == <<"A", "B", "C", "D", "E", "F", "G", "H", "I", "J", "K", "L", "M",
                "N", "O", "P", "Q", "R", "S", "T", "U", "V", "W", "X", "Y", "Z">>

LowerChars == <<"a", "b", "c", "d", "e", "f", "g", "h", "i", "j", "k", "l", "m",
                "n", "o", "p", "q", "r", "s", "t", "u", "v", "w", "x", "y", "z">>

LowerChar(c) ==
  IF \E i \in 1..Len(UpperChars) : UpperChars[i] = c
  THEN LowerChars[CHOOSE i \in 1..Len(UpperChars) : UpperChars[i] = c]
  ELSE c

\* String.prototype.toLowerCase
ToLowerCase(s) == [i \in 1..Len(s) |-> LowerChar(s[i])]

\* String.prototype.split(sep) for a one-character separator: "a.b" gives
\* <<"a", "b">>, ".com" gives <<"", "com">>, a string without sep gives <<s>>.
RECURSIVE Split(_, _)
Split(s, sep) ==
  IF \A i \in 1..Len(s) : s[i] # sep
  THEN <<s>>
  ELSE LET i == CHOOSE i \in 1..Len(s) :
                  s[i] = sep /\ \A j \in 1..(i - 1) : s[j] # sep
       IN <<SubSeq(s, 1, i - 1)>> \o Split(SubSeq(s, i + 1, Len(s)), sep)

\* Array.prototype.join(sep)
RECURSIVE Join(_, _)
Join(parts, sep) ==
  IF Len(parts) = 0 THEN <<>>
  ELSE IF Len(parts) = 1 THEN parts[1]
  ELSE parts[1] \o <<sep>> \o Join(Tail(parts), sep)

\* Array.prototype.slice(-n): the last n elements (all of them when fewer)
SliceLast(parts, n) ==
  IF Len(parts) <= n THEN parts ELSE SubSeq(parts, Len(parts) - n + 1, Len(parts))

DotCom == <<".", "c", "o", "m">>
Com == <<"c", "o", "m">>

----------------------------------------------------------------------------
(* The static tables *)

specialDomains ==
     (<<"r", "e", "d", "n", "o", "t", "e">> :> <<"x", "i", "a", "o", "h", "o", "n", "g", "s", "h", "u", ".", "c", "o", "m">>)   \* rednote -> xiaohongshu.com
  @@ (<<"x", "a", "i">> :> <<"x", ".", "a", "i">>)   \* xai -> x.ai
  @@ (<<"d", "i", "s", "c", "o", "r", "d">> :> <<"d", "i", "s", "c", "o", "r", "d", ".", "c", "o", "m">>)   \* discord -> discord.com
  @@ (<<"t", "e", "l", "e", "g", "r", "a", "m">> :> <<"t", ".", "m", "e">>)   \* telegram -> t.me
  @@ (<<"w", "h", "a", "t", "s", "a", "p", "p">> :> <<"w", "e", "b", ".", "w", "h", "a", "t", "s", "a", "p", "p", ".", "c", "o", "m">>)   \* whatsapp -> web.whatsapp.com
  @@ (<<"i", "n", "s", "t", "a", "g", "r", "a", "m">> :> <<"i", "n", "s", "t", "a", "g", "r", "a", "m", ".", "c", "o", "m">>)   \* instagram -> instagram.com
  @@ (<<"f", "a", "c", "e", "b", "o", "o", "k">> :> <<"f", "a", "c", "e", "b", "o", "o", "k", ".", "c", "o", "m">>)   \* facebook -> facebook.com
  @@ (<<"t", "w", "i", "t", "t", "e", "r">> :> <<"t", "w", "i", "t", "t", "e", "r", ".", "c", "o", "m">>)   \* twitter -> twitter.com
  @@ (<<"x">> :> <<"x", ".", "c", "o", "m">>)   \* x -> x.com
  @@ (<<"l", "i", "n", "k", "e", "d", "i", "n">> :> <<"l", "i", "n", "k", "e", "d", "i", "n", ".", "c", "o", "m">>)   \* linkedin -> linkedin.com
  @@ (<<"t", "i", "k", "t", "o", "k">> :> <<"t", "i", "k", "t", "o", "k", ".", "c", "o", "m">>)   \* tiktok -> tiktok.com
  @@ (<<"y", "o", "u", "t", "u", "b", "e">> :> <<"y", "o", "u", "t", "u", "b", "e", ".", "c", "o", "m">>)   \* youtube -> youtube.com
  @@ (<<"r", "e", "d", "d", "i", "t">> :> <<"r", "e", "d", "d", "i", "t", ".", "c", "o", "m">>)   \* reddit -> reddit.com
  @@ (<<"g", "i", "t", "h", "u", "b">> :> <<"g", "i", "t", "h", "u", "b", ".", "c", "o", "m">>)   \* github -> github.com
  @@ (<<"g", "i", "t", "l", "a", "b">> :> <<"g", "i", "t", "l", "a", "b", ".", "c", "o", "m">>)   \* gitlab -> gitlab.com
  @@ (<<"b", "i", "t", "b", "u", "c", "k", "e", "t">> :> <<"b", "i", "t", "b", "u", "c", "k", "e", "t", ".", "o", "r", "g">>)   \* bitbucket -> bitbucket.org
  @@ (<<"s", "t", "a", "c", "k", "o", "v", "e", "r", "f", "l", "o", "w">> :> <<"s", "t", "a", "c", "k", "o", "v", "e", "r", "f", "l", "o", "w", ".", "c", "o", "m">>)   \* stackoverflow -> stackoverflow.com
  @@ (<<"m", "e", "d", "i", "u", "m">> :> <<"m", "e", "d", "i", "u", "m", ".", "c", "o", "m">>)   \* medium -> medium.com
  @@ (<<"d", "e", "v">> :> <<"d", "e", "v", ".", "t", "o">>)   \* dev -> dev.to
  @@ (<<"h", "a", "s", "h", "n", "o", "d", "e">> :> <<"h", "a", "s", "h", "n", "o", "d", "e", ".", "c", "o", "m">>)   \* hashnode -> hashnode.com
  @@ (<<"n", "o", "t", "i", "o", "n">> :> <<"n", "o", "t", "i", "o", "n", ".", "s", "o">>)   \* notion -> notion.so
  @@ (<<"f", "i", "g", "m", "a">> :> <<"f", "i", "g", "m", "a", ".", "c", "o", "m">>)   \* figma -> figma.com
  @@ (<<"s", "p", "o", "t", "i", "f", "y">> :> <<"s", "p", "o", "t", "i", "f", "y", ".", "c", "o", "m">>)   \* spotify -> spotify.com
  @@ (<<"a", "p", "p", "l", "e", "-", "m", "u", "s", "i", "c">> :> <<"m", "u", "s", "i", "c", ".", "a", "p", "p", "l", "e", ".", "c", "o", "m">>)   \* apple-music -> music.apple.com
  @@ (<<"n", "e", "t", "f", "l", "i", "x">> :> <<"n", "e", "t", "f", "l", "i", "x", ".", "c", "o", "m">>)   \* netflix -> netflix.com
  @@ (<<"a", "m", "a", "z", "o", "n">> :> <<"a", "m", "a", "z", "o", "n", ".", "c", "o", "m">>)   \* amazon -> amazon.com
  @@ (<<"e", "b", "a", "y">> :> <<"e", "b", "a", "y", ".", "c", "o", "m">>)   \* ebay -> ebay.com
  @@ (<<"a", "l", "i", "e", "x", "p", "r", "e", "s", "s">> :> <<"a", "l", "i", "e", "x", "p", "r", "e", "s", "s", ".", "c", "o", "m">>)   \* aliexpress -> aliexpress.com
  @@ (<<"t", "a", "o", "b", "a", "o">> :> <<"t", "a", "o", "b", "a", "o", ".", "c", "o", "m">>)   \* taobao -> taobao.com
  @@ (<<"j", "d">> :> <<"j", "d", ".", "c", "o", "m">>)   \* jd -> jd.com

specialTlds ==
  { <<"c", "o", ".", "u", "k">>, <<"c", "o", "m", ".", "a", "u">>,
    <<"c", "o", ".", "j", "p">>, <<"c", "o", ".", "k", "r">>,
    <<"c", "o", "m", ".", "b", "r">>, <<"c", "o", ".", "i", "n">> }

\* The domain-of-record of an identifier: its table entry, else identifier.com
DomainOfRecord(serviceName) ==
  IF serviceName \in DOMAIN specialDomains
  THEN specialDomains[serviceName]
  ELSE serviceName \o DotCom

\* Catalog identifiers outside the table (the "standard service" branch)
StandardSamples ==
  { <<"o", "p", "e", "n", "a", "i">>,     \* openai
    <<"a", "p", "p", "l", "e", "-", "t", "v">>,   \* apple-tv
    <<"G", "i", "t", "H", "u", "b">>,     \* GitHub
    <<"c", "o">> }     \* co

AllIdentifiers == DOMAIN specialDomains \cup StandardSamples

\* The identifiers of the concurrent runs
Identifiers ==
  { <<"x", "a", "i">>, <<"o", "p", "e", "n", "a", "i">> }

----------------------------------------------------------------------------
(* parseDomain *)

\* The value of `a || b` for strings: the empty string is falsy; `absent`
\* says that a is undefined (an index outside the array).
OrElse(absent, a, b) == IF absent \/ a = <<>> THEN b ELSE a

\* The default branch with the two labels exchanged
parseDomainSwapped(domain) ==
  LET parts == Split(domain, ".")
      n == Len(parts)
      lastTwoParts == Join(SliceLast(parts, 2), ".")
  IN IF n < 2
     THEN [threw |-> TRUE, sld |-> <<>>, tld |-> <<>>]
     ELSE IF lastTwoParts \in specialTlds
     THEN [threw |-> FALSE,
           sld |-> OrElse(n < 3, IF n < 3 THEN <<>> ELSE parts[n - 2], parts[n - 1]),
           tld |-> lastTwoParts]
     ELSE [threw |-> FALSE, sld |-> parts[n], tld |-> parts[n - 1]]

\* The compound-suffix branch without the look at the label before the suffix
parseDomainNoPreceding(domain) ==
  LET parts == Split(domain, ".")
      n == Len(parts)
      lastTwoParts == Join(SliceLast(parts, 2), ".")
  IN IF n < 2
     THEN [threw |-> TRUE, sld |-> <<>>, tld |-> <<>>]
     ELSE IF lastTwoParts \in specialTlds
     THEN [threw |-> FALSE, sld |-> parts[n - 1], tld |-> lastTwoParts]
     ELSE [threw |-> FALSE, sld |-> parts[n - 1], tld |-> parts[n]]

\* The length check asking for three labels
parseDomainThreeLabels(domain) ==
  LET parts == Split(domain, ".")
      n == Len(parts)
      lastTwoParts == Join(SliceLast(parts, 2), ".")
  IN IF n < 3
     THEN [threw |-> TRUE, sld |-> <<>>, tld |-> <<>>]
     ELSE IF lastTwoParts \in specialTlds
     THEN [threw |-> FALSE,
           sld |-> OrElse(n < 3, IF n < 3 THEN <<>> ELSE parts[n - 2], parts[n - 1]),
           tld |-> lastTwoParts]
     ELSE [threw |-> FALSE, sld |-> parts[n - 1], tld |-> parts[n]]

\* parseDomain(domain): [threw |-> TRUE] is the thrown Error
parseDomain(domain) ==
  LET parts == Split(domain, ".")
      n == Len(parts)
      lastTwoParts == Join(SliceLast(parts, 2), ".")
  IN IF n < 2
     THEN [threw |-> TRUE, sld |-> <<>>, tld |-> <<>>]
     ELSE IF lastTwoParts \in specialTlds
     THEN [threw |-> FALSE,
           sld |-> OrElse(n < 3, IF n < 3 THEN <<>> ELSE parts[n - 2], parts[n - 1]),
           tld |-> lastTwoParts]
     ELSE [threw |-> FALSE, sld |-> parts[n - 1], tld |-> parts[n]]

----------------------------------------------------------------------------
(* checkFaviconExists *)

\* What a HEAD request can come to: a 2xx response, another response, or a
\* rejected fetch (network error).
Outcomes == {"ok", "non2xx", "error"}

\* A set that forgets the other entries
CacheSetOnly(cache, serviceName, exists) == [n \in {serviceName} |-> exists]

\* Map.prototype.set
CacheSet(cache, serviceName, exists) ==
  [n \in DOMAIN cache \cup {serviceName} |->
     IF n = serviceName THEN exists ELSE cache[n]]

\* Map.prototype.clear
CacheClear(cache) == [n \in {} |-> FALSE]

\* checkFaviconExists without its cache lookup
CacheHitNever(cache, serviceName) == FALSE

\* The synchronous head of checkFaviconExists: a cached identifier returns
\* its cached value and issues no request.
CacheHit(cache, serviceName) == serviceName \in DOMAIN cache

\* checkFaviconExists without its catch: a network error rejects the call
ProbeSettleNoCatch(outcome) ==
  IF outcome = "error"
  THEN [threw |-> TRUE, write |-> FALSE, exists |-> FALSE]
  ELSE [threw |-> FALSE, write |-> TRUE, exists |-> (outcome = "ok")]

\* checkFaviconExists whose catch forgets the cache
ProbeSettleNoCacheOnError(outcome) ==
  IF outcome = "error"
  THEN [threw |-> FALSE, write |-> FALSE, exists |-> FALSE]
  ELSE [threw |-> FALSE, write |-> TRUE, exists |-> (outcome = "ok")]

\* checkFaviconExists with the test of response.ok negated
ProbeSettleInverted(outcome) ==
  IF outcome = "error"
  THEN [threw |-> FALSE, write |-> TRUE, exists |-> FALSE]
  ELSE [threw |-> FALSE, write |-> TRUE, exists |-> (outcome # "ok")]

\* The rest of checkFaviconExists, run when the request settles: `exists`
\* is what the call returns, `write` whether it stores it in the cache and
\* `threw` whether the call rejects instead.
ProbeSettle(outcome) ==
  IF outcome = "error"
  THEN [threw |-> FALSE, write |-> TRUE, exists |-> FALSE]
  ELSE [threw |-> FALSE, write |-> TRUE, exists |-> (outcome = "ok")]

----------------------------------------------------------------------------
(* generateServiceConfig *)

\* generateServiceConfig adding sld whether or not it matches the name
ConfigFromDomainAlwaysSld(serviceName, domain, faviconExists) ==
  LET parsed == parseDomain(domain)
  IN IF ~faviconExists
     THEN [name |-> serviceName, domain |-> domain]
     ELSE IF parsed.threw
     THEN [name |-> serviceName, domain |-> domain]
     ELSE [name |-> serviceName, sld |-> parsed.sld, tld |-> parsed.tld]

\* generateServiceConfig never adding sld
ConfigFromDomainNeverSld(serviceName, domain, faviconExists) ==
  LET parsed == parseDomain(domain)
  IN IF ~faviconExists
     THEN [name |-> serviceName, domain |-> domain]
     ELSE IF parsed.threw
     THEN [name |-> serviceName, domain |-> domain]
     ELSE [name |-> serviceName, tld |-> parsed.tld]

\* Lines 131-154 of generateServiceConfig: the record built from a special
\* domain, with the try/catch around parseDomain.
ConfigFromDomain(serviceName, domain, faviconExists) ==
  LET parsed == parseDomain(domain)
  IN IF ~faviconExists
     THEN [name |-> serviceName, domain |-> domain]
     ELSE IF parsed.threw
     THEN [name |-> serviceName, domain |-> domain]
     ELSE IF ToLowerCase(serviceName) = ToLowerCase(parsed.sld)
     THEN [name |-> serviceName, tld |-> parsed.tld]
     ELSE [name |-> serviceName, sld |-> parsed.sld, tld |-> parsed.tld]

\* The standard branch without its fallback to the full domain
ConfigStandardNoFallback(serviceName, faviconExists) ==
  [name |-> serviceName, tld |-> Com]

\* Lines 156-166: a standard service, assumed to live at serviceName.com
ConfigStandard(serviceName, faviconExists) ==
  IF ~faviconExists
  THEN [name |-> serviceName, domain |-> serviceName \o DotCom]
  ELSE [name |-> serviceName, tld |-> Com]

\* generateServiceConfig setting tld before it looks at the icon
BuildConfigKeepsTld(serviceName, faviconExists) ==
  IF faviconExists
  THEN [name |-> serviceName, tld |-> Com]
  ELSE [name |-> serviceName, tld |-> Com, domain |-> DomainOfRecord(serviceName)]

\* The part of generateServiceConfig after `await checkFaviconExists`: the
\* record it returns.
BuildConfig(serviceName, faviconExists) ==
  IF serviceName \in DOMAIN specialDomains
  THEN ConfigFromDomain(serviceName, specialDomains[serviceName], faviconExists)
  ELSE ConfigStandard(serviceName, faviconExists)

\* BuildConfig over the catalog, computed once
configOf ==
  [serviceName \in AllIdentifiers |->
     [faviconExists \in BOOLEAN |-> BuildConfig(serviceName, faviconExists)]]

----------------------------------------------------------------------------
(* generateServiceConfigs: Promise.all over the calls of one batch *)

\* The slot of Promise.all's result array that no call has filled yet
PendingConfig == [pending |-> TRUE]

\* A collection in completion order: the value goes to the first free slot
PromiseAllStoreNext(values, k, v) ==
  [values EXCEPT ![CHOOSE i \in 1..Len(values) :
                     /\ values[i] = PendingConfig
                     /\ \A j \in 1..(i - 1) : values[j] # PendingConfig] = v]

\* Promise.all stores the value of the k-th promise at index k
PromiseAllStore(values, k, v) == [values EXCEPT ![k] = v]

\* A cache hit answering the opposite of the cached value
IssueCallNegatesCached(cache, serviceName) ==
  IF CacheHit(cache, serviceName)
  THEN [status |-> "fulfilled", exists |-> ~cache[serviceName],
        config |-> configOf[serviceName][~cache[serviceName]]]
  ELSE [status |-> "pending", exists |-> FALSE, config |-> PendingConfig]

\* The state of the call for names[k] when generateServiceConfigs(names) is
\* issued: done if the identifier is cached, else waiting for its request.
IssueCall(cache, serviceName) ==
  IF CacheHit(cache, serviceName)
  THEN [status |-> "fulfilled", exists |-> cache[serviceName],
        config |-> configOf[serviceName][cache[serviceName]]]
  ELSE [status |-> "pending", exists |-> FALSE, config |-> PendingConfig]

RECURSIVE HitsOf(_, _)
\* The indices of the calls that never suspend, in issue order
HitsOf(calls, k) ==
  IF k > Len(calls) THEN <<>>
  ELSE (IF calls[k].status = "fulfilled" THEN <<k>> ELSE <<>>) \o HitsOf(calls, k + 1)

RECURSIVE StoreAll(_, _, _)
\* Promise.all's array after the calls listed in `order` have stored their values
StoreAll(values, calls, order) ==
  IF order = <<>> THEN values
  ELSE StoreAll(PromiseAllStore(values, Head(order), calls[Head(order)].config),
                calls, Tail(order))

\* Promise.all: rejected as soon as one promise rejects, fulfilled when all are
BatchState(status) ==
  IF \E k \in 1..Len(status) : status[k] = "rejected" THEN "rejected"
  ELSE IF \A k \in 1..Len(status) : status[k] = "fulfilled" THEN "fulfilled"
  ELSE "pending"

\* How the calls of a batch have returned so far: "immediate" if all returned
\* within the task that issued them, "reordered" if one returned while a call
\* before it in the array was still waiting, else `sofar`.
CompletionOrder(status, sofar) ==
  IF \A k \in 1..Len(status) : status[k] # "pending" THEN "immediate"
  ELSE IF \E k \in 1..Len(status) :
            /\ status[k] # "pending"
            /\ \E j \in 1..(k - 1) : status[j] = "pending"
  THEN "reordered"
  ELSE sofar

\* generateServiceConfigs calling generateServiceConfig for the last name only
NewBatchLastOnly(cache, names) ==
  LET last == SubSeq(names, Len(names), Len(names))
      calls == [k \in 1..Len(last) |-> IssueCall(cache, last[k])]
      hits == HitsOf(calls, 1)
      status == [k \in 1..Len(last) |-> calls[k].status]
  IN [state |-> BatchState(status),
      names |-> last,
      status |-> status,
      completion |-> CompletionOrder(status, "in-order"),
      exists |-> [k \in 1..Len(last) |-> calls[k].exists],
      configs |-> StoreAll([k \in 1..Len(last) |-> PendingConfig], calls, hits)]

\* generateServiceConfigs(names): the calls in issue order, none yet resumed
NewBatch(cache, names) ==
  LET calls == [k \in 1..Len(names) |-> IssueCall(cache, names[k])]
      hits == HitsOf(calls, 1)
      status == [k \in 1..Len(names) |-> calls[k].status]
  IN [state |-> BatchState(status),
      names |-> names,
      status |-> status,
      completion |-> CompletionOrder(status, "in-order"),
      exists |-> [k \in 1..Len(names) |-> calls[k].exists],
      configs |-> StoreAll([k \in 1..Len(names) |-> PendingConfig], calls, hits)]

\* The call for names[k] resumes with the outcome of its request
ResumeCall(batch, k, outcome) ==
  LET r == ProbeSettle(outcome)
      status == [batch.status EXCEPT ![k] = IF r.threw THEN "rejected" ELSE "fulfilled"]
  IN [state |-> BatchState(status),
      names |-> batch.names,
      status |-> status,
      completion |-> IF \E j \in 1..(k - 1) : batch.status[j] = "pending"
                     THEN "reordered" ELSE batch.completion,
      exists |-> [batch.exists EXCEPT ![k] = r.exists],
      configs |-> IF r.threw THEN batch.configs
                  ELSE PromiseAllStore(batch.configs, k,
                                       configOf[batch.names[k]][r.exists])]

NoBatch ==
  [state |-> "none", names |-> <<>>, status |-> <<>>, completion |-> "none",
   exists |-> <<>>, configs |-> <<>>]

Range(s) == {s[i] : i \in 1..Len(s)}

\* The sequences of at most n distinct elements of S, as a selection is
RECURSIVE DistinctSeqs(_, _)
DistinctSeqs(S, n) ==
  IF n = 0 THEN {<<>>}
  ELSE LET shorter == DistinctSeqs(S, n - 1)
       IN shorter \cup
          UNION {{Append(s, x) : x \in S \ Range(s)} :
                   s \in {t \in shorter : Len(t) = n - 1}}

BatchInputs == DistinctSeqs(Identifiers, MaxBatchLen) \ {<<>>}

----------------------------------------------------------------------------
(* configToString, configsToString *)

\* Array.prototype.join(sep) for a separator of any length
RECURSIVE JoinWith(_, _)
JoinWith(parts, sep) ==
  IF Len(parts) = 0 THEN <<>>
  ELSE IF Len(parts) = 1 THEN parts[1]
  ELSE parts[1] \o sep \o JoinWith(Tail(parts), sep)

\* A JavaScript object is the sequence of its <<key, value>> properties in
\* the order they were set.  The record generateServiceConfig returns:
\* name first, then sld before tld, or domain.
ObjectOf(config) ==
  <<<<"name", config.name>>>>
  \o (IF "sld" \in DOMAIN config THEN <<<<"sld", config.sld>>>> ELSE <<>>)
  \o (IF "tld" \in DOMAIN config THEN <<<<"tld", config.tld>>>> ELSE <<>>)
  \o (IF "domain" \in DOMAIN config THEN <<<<"domain", config.domain>>>> ELSE <<>>)

HasKey(object, key) == \E i \in 1..Len(object) : object[i][1] = key

\* `${undefined}`
Undefined == <<"u", "n", "d", "e", "f", "i", "n", "e", "d">>

\* object[key] inside a template literal
Get(object, key) ==
  IF HasKey(object, key)
  THEN object[CHOOSE i \in 1..Len(object) : object[i][1] = key][2]
  ELSE Undefined

\* if (config.key): an absent property and the empty string are falsy
Truthy(object, key) == HasKey(object, key) /\ Get(object, key) # <<>>

KeyText ==
  [name |-> <<"n", "a", "m", "e">>, tld |-> <<"t", "l", "d">>, sld |-> <<"s", "l", "d">>,
   domain |-> <<"d", "o", "m", "a", "i", "n">>, alias |-> <<"a", "l", "i", "a", "s">>]

\* `key: "${value}"`
Part(key, value) == KeyText[key] \o <<":", " ", "\"">> \o value \o <<"\"">>

\* The properties rendered in the order they were set
configToStringInsertionOrder(config) ==
  LET RECURSIVE Rest(_)
      Rest(i) ==
        IF i > Len(config) THEN <<>>
        ELSE (IF config[i][1] # "name" /\ config[i][2] # <<>>
              THEN <<Part(config[i][1], config[i][2])>> ELSE <<>>) \o Rest(i + 1)
      parts == <<Part("name", Get(config, "name"))>> \o Rest(1)
  IN <<"{", " ">> \o JoinWith(parts, <<",", " ">>) \o <<" ", "}">>

\* configToString(config)
configToString(config) ==
  LET Opt(key) == IF Truthy(config, key) THEN <<Part(key, Get(config, key))>> ELSE <<>>
      parts == <<Part("name", Get(config, "name"))>>
               \o Opt("tld") \o Opt("sld") \o Opt("domain") \o Opt("alias")
  IN <<"{", " ">> \o JoinWith(parts, <<",", " ">>) \o <<" ", "}">>

\* The separator written after every record, the last one included
configsToStringTrailing(configs) ==
  LET RECURSIVE Each(_)
      Each(i) ==
        IF i > Len(configs) THEN <<>>
        ELSE <<" ", " ">> \o configToString(configs[i]) \o <<",", "\n">> \o Each(i + 1)
  IN Each(1)

\* configsToString(configs)
configsToString(configs) ==
  JoinWith([i \in 1..Len(configs) |-> <<" ", " ">> \o configToString(configs[i])],
           <<",", "\n">>)

----------------------------------------------------------------------------
(* OutputManager.generateOutput and the selection it is given *)

Placeholder == <<"/", "*", " ", "S", "E", "R", "V", "I", "C", "E", "S", "_", "P", "L", "A", "C", "E", "H", "O", "L", "D", "E", "R", " ", "*", "/">>

\* The META.js template (src/templates/meta-template.js): some text around
\* the placeholder
metaTemplate == <<"[", "\n">> \o Placeholder \o <<"\n", "]">>

\* loadTemplate(): the template script is loaded before the application
templateCache == metaTemplate

\* String.prototype.replace(pattern, replacement) for a string pattern: the
\* first occurrence only
Replace(s, pattern, replacement) ==
  LET hits == {i \in 1..(Len(s) - Len(pattern) + 1) :
                 SubSeq(s, i, i + Len(pattern) - 1) = pattern}
  IN IF hits = {} THEN s
     ELSE LET i == CHOOSE h \in hits : \A g \in hits : h <= g
          IN SubSeq(s, 1, i - 1) \o replacement \o SubSeq(s, i + Len(pattern), Len(s))

\* generateOutput, from the array generateServiceConfigs resolved with
generateOutput(configs) ==
  Replace(templateCache, Placeholder,
          configsToString([i \in 1..Len(configs) |-> ObjectOf(configs[i])]))

\* Array.prototype.indexOf, indices from 0, -1 when absent
IndexOf(array, item) ==
  IF \E i \in 1..Len(array) : array[i] = item
  THEN (CHOOSE i \in 1..Len(array) :
          array[i] = item /\ \A j \in 1..(i - 1) : array[j] # item) - 1
  ELSE -1

\* The start index of Array.prototype.splice: a negative one counts from the
\* end, and the result is kept within 0..length
SpliceStart(length, start) ==
  IF start < 0 THEN (IF length + start < 0 THEN 0 ELSE length + start)
  ELSE IF start > length THEN length ELSE start

\* array.splice(start, 1)
SpliceOut(array, start) ==
  LET s == SpliceStart(Len(array), start)
  IN SubSeq(array, 1, s) \o SubSeq(array, s + 2, Len(array))

\* array.splice(start, 0, item)
SpliceIn(array, start, item) ==
  LET s == SpliceStart(Len(array), start)
  IN SubSeq(array, 1, s) \o <<item>> \o SubSeq(array, s + 1, Len(array))

\* addService without the look at the Set
addServiceUnchecked(set, order, serviceName) ==
  [selectedServices |-> set \cup {serviceName},
   selectedServicesOrder |-> Append(order, serviceName),
   changed |-> TRUE]

\* ServicesManager.addService on the Set and the array; `changed` says that
\* the selection was changed (and servicesChanged dispatched)
addService(set, order, serviceName) ==
  IF serviceName \notin set
  THEN [selectedServices |-> set \cup {serviceName},
        selectedServicesOrder |-> Append(order, serviceName),
        changed |-> TRUE]
  ELSE [selectedServices |-> set, selectedServicesOrder |-> order, changed |-> FALSE]

\* ServicesManager.removeService
removeService(set, order, serviceName) ==
  IF serviceName \in set
  THEN [selectedServices |-> set \ {serviceName},
        selectedServicesOrder |->
          IF IndexOf(order, serviceName) > -1
          THEN SpliceOut(order, IndexOf(order, serviceName))
          ELSE order,
        changed |-> TRUE]
  ELSE [selectedServices |-> set, selectedServicesOrder |-> order, changed |-> FALSE]

\* reorderServices exchanging the two items
reorderServicesSwap(order, fromIndex, toIndex) ==
  [order EXCEPT ![fromIndex + 1] = order[toIndex + 1],
                ![toIndex + 1] = order[fromIndex + 1]]

\* ServicesManager.reorderServices, indices from 0 as in the code, fromIndex
\* within the array
reorderServices(order, fromIndex, toIndex) ==
  IF fromIndex = toIndex THEN order
  ELSE SpliceIn(SpliceOut(order, fromIndex), toIndex, order[fromIndex + 1])

\* handleDragEnd: the index the dragged item is moved to, from the place of
\* the placeholder among the items
DropIndex(draggedIndex, placeholderIndex) ==
  IF placeholderIndex > draggedIndex THEN placeholderIndex - 1 ELSE placeholderIndex

----------------------------------------------------------------------------
(* ThemeManager *)

\* localStorage.getItem of a missing key, getAttribute of a missing attribute
NoItem == "null"

themes == <<"auto", "light", "dark">>

SystemThemes == {"light", "dark"}

\* this.themes[this.currentThemeIndex]
currentTheme(th) == themes[th.currentThemeIndex + 1]

\* applyTheme with `auto` shown as the light theme
applyThemeAutoIsLight(th) ==
  IF currentTheme(th) = "auto"
  THEN [th EXCEPT !.dataTheme = "light", !.savedTheme = NoItem]
  ELSE [th EXCEPT !.dataTheme = currentTheme(th), !.savedTheme = currentTheme(th)]

\* applyTheme without its removeItem
applyThemeKeepsItem(th) ==
  IF currentTheme(th) = "auto"
  THEN [th EXCEPT !.dataTheme = th.systemTheme]
  ELSE [th EXCEPT !.dataTheme = currentTheme(th), !.savedTheme = currentTheme(th)]

\* applyTheme: the data-theme attribute and the stored "theme" item
applyTheme(th) ==
  IF currentTheme(th) = "auto"
  THEN [th EXCEPT !.dataTheme = th.systemTheme, !.savedTheme = NoItem]
  ELSE [th EXCEPT !.dataTheme = currentTheme(th), !.savedTheme = currentTheme(th)]

\* setupTheme
setupTheme(th) ==
  applyTheme(IF th.savedTheme # NoItem /\ th.savedTheme # ""
                /\ \E i \in 1..Len(themes) : themes[i] = th.savedTheme
             THEN [th EXCEPT !.currentThemeIndex = IndexOf(themes, th.savedTheme)]
             ELSE th)

\* new ThemeManager() on a page whose storage holds storedItem under "theme"
ThemeManager(storedItem, systemTheme) ==
  setupTheme([currentThemeIndex |-> 0, systemTheme |-> systemTheme,
              dataTheme |-> NoItem, savedTheme |-> storedItem])

\* toggleTheme going backwards
toggleThemeBackwards(th) ==
  applyTheme([th EXCEPT !.currentThemeIndex = (th.currentThemeIndex + 2) % Len(themes)])

\* toggleTheme
toggleTheme(th) ==
  applyTheme([th EXCEPT !.currentThemeIndex = (th.currentThemeIndex + 1) % Len(themes)])

\* The listener of setupSystemThemeListener, the system theme being now
\* systemTheme
systemThemeChanged(th, systemTheme) ==
  LET now == [th EXCEPT !.systemTheme = systemTheme]
  IN IF currentTheme(now) = "auto" THEN applyTheme(now) ELSE now

----------------------------------------------------------------------------
(* The search box of ServicesManager *)

\* The catalog in the order fetchServices leaves it in (sorted by name)
allServices == << <<"o", "p", "e", "n", "a", "i">>, <<"x", "a", "i">> >>

\* What is typed into the search input
SearchTerms == { <<>>, <<" ">>, <<"x">>, <<"A", "I">>, <<"z">> }

\* String.prototype.trim
RECURSIVE Trim(_)
Trim(s) ==
  IF s = <<>> THEN s
  ELSE IF Head(s) = " " THEN Trim(Tail(s))
  ELSE IF s[Len(s)] = " " THEN Trim(SubSeq(s, 1, Len(s) - 1))
  ELSE s

\* String.prototype.includes
Includes(s, searchString) ==
  \E i \in 1..(Len(s) - Len(searchString) + 1) :
    SubSeq(s, i, i + Len(searchString) - 1) = searchString

\* handleSearch's filter listing selected services too
RECURSIVE filteredServicesAll(_, _, _)
filteredServicesAll(services, searchTerm, selected) ==
  IF services = <<>> THEN <<>>
  ELSE (IF Includes(ToLowerCase(Head(services)), ToLowerCase(searchTerm))
        THEN <<Head(services)>> ELSE <<>>)
       \o filteredServicesAll(Tail(services), searchTerm, selected)

\* handleSearch's filter: the services whose name includes the term, case
\* ignored, and which are not selected
RECURSIVE filteredServices(_, _, _)
filteredServices(services, searchTerm, selected) ==
  IF services = <<>> THEN <<>>
  ELSE (IF /\ Includes(ToLowerCase(Head(services)), ToLowerCase(searchTerm))
           /\ Head(services) \notin selected
        THEN <<Head(services)>> ELSE <<>>)
       \o filteredServices(Tail(services), searchTerm, selected)

\* The search box before any input: the input's value, the pending timers,
\* this.searchTimeout (0 for null), the timer ids handed out, the terms
\* handleSearch was called with, and the dropdown
NoSearch ==
  [value |-> <<>>, timers |-> {}, searchTimeout |-> 0, timerCount |-> 0,
   handled |-> <<>>, show |-> FALSE, results |-> <<>>]

\* The input listener without its clearTimeout
onInputNoClear(s, value) ==
  [s EXCEPT !.value = value,
            !.timers = s.timers \cup {s.timerCount + 1},
            !.searchTimeout = s.timerCount + 1,
            !.timerCount = s.timerCount + 1]

\* The input listener: the input holds `value`; clearTimeout, setTimeout
onInput(s, value) ==
  [s EXCEPT !.value = value,
            !.timers = (s.timers \ {s.searchTimeout}) \cup {s.timerCount + 1},
            !.searchTimeout = s.timerCount + 1,
            !.timerCount = s.timerCount + 1]

\* handleSearch(searchTerm)
handleSearch(s, searchTerm, selected) ==
  IF Trim(searchTerm) = <<>>
  THEN [s EXCEPT !.handled = Append(s.handled, searchTerm), !.show = FALSE]
  ELSE [s EXCEPT !.handled = Append(s.handled, searchTerm), !.show = TRUE,
                 !.results = filteredServices(allServices, searchTerm, selected)]

\* A timer of the input listener fires: handleSearch(e.target.value)
onSearchTimer(s, timer, selected) ==
  handleSearch([s EXCEPT !.timers = s.timers \ {timer}], s.value, selected)

----------------------------------------------------------------------------
(* The catalog heuristics of script.js (fetchServices) *)

\* String.prototype.replace(/-/g, "")
RemoveHyphens(s) == SelectSeq(s, LAMBDA c : c # "-")

KnownTlds == { <<"c", "o", "m">>, <<"o", "r", "g">>, <<"n", "e", "t">>, <<"a", "i">>, <<"i", "o">>, <<"c", "o">> }

\* The service definition fetchServices builds for the catalog entry `name`,
\* as the object's properties in the order they are set
serviceDefinition(name) ==
  LET parts == Split(name, "-")
      lastPart == parts[Len(parts)]
      remainingParts == SubSeq(parts, 1, Len(parts) - 1)
      potentialSld == Join(remainingParts, "-")
  IN IF Includes(name, <<"g", "o", "o", "g", "l", "e", "-">>)
     THEN << <<"name", name>>, <<"tld", <<"g", "o", "o", "g", "l", "e">>>>, <<"alias", name>> >>
     ELSE IF name = <<"x", "a", "i">>
     THEN << <<"name", <<"x", "A", "I">>>>, <<"tld", <<"a", "i">>>>, <<"sld", <<"x">>>> >>
     ELSE IF name = <<"r", "e", "d", "n", "o", "t", "e">>
     THEN << <<"name", <<"r", "e", "d", "n", "o", "t", "e">>>>, <<"domain", <<"x", "i", "a", "o", "h", "o", "n", "g", "s", "h", "u", ".", "c", "o", "m">>>>, <<"alias", <<"X", "i", "a", "o", "h", "o", "n", "g", "s", "h", "u">>>> >>
     ELSE IF name = <<"c", "l", "a", "u", "d", "e", "-", "a", "i">>
     THEN << <<"name", name>>, <<"domain", <<"c", "l", "a", "u", "d", "e", ".", "a", "i">>>> >>
     ELSE IF name = <<"o", "p", "e", "n", "a", "i">> \/ name = <<"g", "i", "t", "h", "u", "b">>
     THEN << <<"name", name>>, <<"tld", Com>> >>
     ELSE IF Includes(name, <<"-">>)
     THEN IF lastPart \in KnownTlds
          THEN << <<"name", name>>, <<"tld", lastPart>> >>
               \o (IF Len(parts) > 1
                   THEN IF Len(remainingParts) = 1
                        THEN << <<"sld", remainingParts[1]>> >>
                        ELSE IF Len(potentialSld) <= 15
                        THEN << <<"sld", potentialSld>> >>
                        ELSE << <<"domain", Replace(name, <<"-">>, <<".">>) \o DotCom>> >>
                   ELSE <<>>)
          ELSE IF Len(parts) = 2 /\ Len(parts[1]) <= 10 /\ Len(parts[2]) <= 10
          THEN << <<"name", name>>, <<"tld", Com>>, <<"sld", parts[1]>> >>
          ELSE << <<"name", name>>, <<"domain", RemoveHyphens(name) \o DotCom>> >>
     ELSE << <<"name", name>>, <<"tld", Com>> >>

----------------------------------------------------------------------------
(* OutputManager: the panel, the copy and download buttons *)

\* !s || !s.trim()
IsBlank(s) == Trim(s) = <<>>

\* The OutputManager after its constructor and init: whether the global
\* metaTemplate was found (templateCache set), the panel of the output
\* display, the clipboard, the writeText calls in flight, the last download,
\* the two buttons, and the pending timers that take a button's feedback back
OutputManagerNew(templateLoaded) ==
  [templateLoaded |-> templateLoaded,
   display |-> "empty",
   clipboard |-> [written |-> FALSE, text |-> <<>>],
   writes |-> <<>>,
   downloaded |-> [written |-> FALSE, text |-> <<>>],
   copyButton |-> [html |-> "Copy to Clipboard", classes |-> {}],
   downloadButton |-> [html |-> "Download META.js", classes |-> {}],
   timers |-> <<>>]

\* updateOutput's panel: the success message for an output that is not blank
updateOutput(ui, output) ==
  [ui EXCEPT !.display = IF IsBlank(output) THEN "empty" ELSE "generated"]

\* showError leaving the panel as it is
showErrorNothing(ui) == ui

\* showError: the error panel
showError(ui) == [ui EXCEPT !.display = "error"]

\* A button shows feedback and sets the timer that takes it back
Feedback(ui, button, html, class) ==
  LET old == IF button = "copy" THEN ui.copyButton ELSE ui.downloadButton
      new == [html |-> html, classes |-> old.classes \cup {class}]
      timer == [button |-> button, html |-> old.html, class |-> class]
  IN IF button = "copy"
     THEN [ui EXCEPT !.copyButton = new, !.timers = Append(@, timer)]
     ELSE [ui EXCEPT !.downloadButton = new, !.timers = Append(@, timer)]

showCopySuccess(ui) == Feedback(ui, "copy", "Copied!", "btn-success")
showCopyError(ui) == Feedback(ui, "copy", "Copy Failed", "btn-danger")
showDownloadSuccess(ui) == Feedback(ui, "download", "Downloaded!", "btn-success")
showDownloadError(ui) == Feedback(ui, "download", "Download Failed", "btn-danger")

\* The i-th pending feedback timer fires
feedbackTimer(ui, i) ==
  LET timer == ui.timers[i]
      rest == SubSeq(ui.timers, 1, i - 1) \o SubSeq(ui.timers, i + 1, Len(ui.timers))
  IN IF timer.button = "copy"
     THEN [ui EXCEPT !.copyButton = [html |-> timer.html,
                                     classes |-> @.classes \ {timer.class}],
                     !.timers = rest]
     ELSE [ui EXCEPT !.downloadButton = [html |-> timer.html,
                                         classes |-> @.classes \ {timer.class}],
                     !.timers = rest]

\* copyToClipboard without its look at the output
copyToClipboardUnchecked(ui, output) ==
  [ui EXCEPT !.writes = Append(@, output)]

\* copyToClipboard up to its await: a blank output throws into the catch
copyToClipboard(ui, output) ==
  IF IsBlank(output)
  THEN showCopyError(ui)
  ELSE [ui EXCEPT !.writes = Append(@, output)]

\* copyToClipboard after its await: the oldest writeText has settled
copyToClipboardResumes(ui, outcome) ==
  LET rest == [ui EXCEPT !.writes = Tail(@)]
  IN IF outcome = "ok"
     THEN showCopySuccess([rest EXCEPT !.clipboard = [written |-> TRUE,
                                                      text |-> Head(ui.writes)]])
     ELSE showCopyError(rest)

\* downloadFile
downloadFile(ui, output) ==
  IF IsBlank(output)
  THEN showDownloadError(ui)
  ELSE showDownloadSuccess([ui EXCEPT !.downloaded = [written |-> TRUE, text |-> output]])

----------------------------------------------------------------------------
(* MetaJSCustomizer: init and waitForServicesLoad *)

\* waitForServicesLoad's timeout and the delay of its polling timer, in ms
timeout == 10000
PollInterval == 100

\* The time between two polls: the timer's delay, or more when the page is
\* busy or in the background
PollDelays == {PollInterval, 2500}

\* The app after `new MetaJSCustomizer()` has run up to the first timer of
\* waitForServicesLoad: the catalog request is in flight, allServices is
\* empty, the loading state is shown
MetaJSCustomizer ==
  [phase |-> "polling", elapsed |-> 0, fetch |-> "pending", allServices |-> 0,
   isInitialized |-> FALSE, loading |-> TRUE, error |-> FALSE]

\* ServicesManager.isLoaded
isLoaded(a) == a.allServices > 0

\* checkServices looking at the clock before it looks at the catalog
checkServicesTimeoutFirst(a, now) ==
  IF now > timeout
  THEN [a EXCEPT !.elapsed = now, !.phase = "failed", !.error = TRUE]
  ELSE IF isLoaded(a)
  THEN [a EXCEPT !.elapsed = now, !.phase = "ready", !.isInitialized = TRUE,
                 !.loading = FALSE]
  ELSE [a EXCEPT !.elapsed = now]

\* checkServices at `now` ms after startTime, and what init does when the
\* promise settles: hideLoadingState and isInitialized = true, or
\* showInitializationError
checkServices(a, now) ==
  IF isLoaded(a)
  THEN [a EXCEPT !.elapsed = now, !.phase = "ready", !.isInitialized = TRUE,
                 !.loading = FALSE]
  ELSE IF now > timeout
  THEN [a EXCEPT !.elapsed = now, !.phase = "failed", !.error = TRUE]
  ELSE [a EXCEPT !.elapsed = now]

\* How the request for the catalog ends: services, an empty tree, an error
CatalogOutcomes == {"services", "empty", "error"}

\* fetchServices resumes with the outcome of its request
fetchServices(a, outcome) ==
  [a EXCEPT !.fetch = outcome,
            !.allServices = IF outcome = "services" THEN 2 ELSE 0]

\* The app the other specifications run in: initialized, the catalog loaded
AppReady == checkServices(fetchServices(MetaJSCustomizer, "services"), PollInterval)

----------------------------------------------------------------------------
(* DomainPreviewManager *)

\* The modal as the page has it: closed, the loading indicator not hidden,
\* the list and the error panel hidden, no fetch in flight
DomainPreviewManager ==
  [open |-> FALSE, loading |-> TRUE, domainsList |-> FALSE, error |-> FALSE,
   serviceName |-> <<>>, listOf |-> <<>>, requests |-> <<>>]

openModal(p) == [p EXCEPT !.open = TRUE]

closeModal(p) == [p EXCEPT !.open = FALSE]

showLoading(p, serviceName) ==
  [p EXCEPT !.serviceName = serviceName, !.loading = TRUE,
            !.domainsList = FALSE, !.error = FALSE]

hideLoading(p) == [p EXCEPT !.loading = FALSE]

\* showPreview up to its await
showPreview(p, serviceName) ==
  [showLoading(openModal(p), serviceName) EXCEPT !.requests = Append(@, serviceName)]

\* displayDomainData: the list is filled and shown, the loading indicator
\* hidden
displayDomainData(p, serviceName) ==
  [hideLoading(p) EXCEPT !.serviceName = serviceName, !.listOf = serviceName,
                         !.domainsList = TRUE]

\* DomainPreviewManager.showError
showPreviewError(p) ==
  [hideLoading(p) EXCEPT !.domainsList = FALSE, !.error = TRUE]

\* showPreview after its await: the i-th fetch in flight has settled
showPreviewResumes(p, i, outcome) ==
  LET rest == [p EXCEPT !.requests = SubSeq(@, 1, i - 1) \o SubSeq(@, i + 1, Len(@))]
  IN IF outcome = "ok"
     THEN displayDomainData(rest, p.requests[i])
     ELSE showPreviewError(rest)

----------------------------------------------------------------------------
(* The state machine *)

\* No pure method is being called
NoCall == [fn |-> "none"]

\* The page as loaded with nothing stored, the system theme light
InitPage ==
  /\ faviconCache = [n \in {} |-> FALSE]
  /\ staleProbes = {}
  /\ batches = <<>>
  /\ resolved = NoBatch
  /\ selectedServices = {}
  /\ selectedServicesOrder = <<>>
  /\ notified = <<>>
  /\ dragTimers = 0
  /\ currentOutput = <<>>
  /\ buttonsDisabled = TRUE
  /\ theme = ThemeManager(NoItem, "light")
  /\ search = NoSearch
  /\ preview = DomainPreviewManager

\* The page with meta-template.js loaded
Init ==
  /\ InitPage
  /\ app = AppReady
  /\ outputUI = OutputManagerNew(TRUE)
  /\ call = NoCall

\* The page, whether meta-template.js was loaded or not
InitOutput ==
  /\ InitPage
  /\ app = AppReady
  /\ outputUI \in {OutputManagerNew(templateLoaded) : templateLoaded \in BOOLEAN}
  /\ call = NoCall

\* The calls whose request is in flight, as <<batch, call>> positions
PendingAt(bs) ==
  { bk \in (1..Len(bs)) \X (1..MaxBatchLen) :
      /\ bk[2] \in 1..Len(bs[bk[1]].names)
      /\ bs[bk[1]].status[bk[2]] = "pending" }

\* The positions after batch b has left `batches`: the later batches move up
WithoutBatch(positions, b) ==
  { IF bk[1] > b THEN <<bk[1] - 1, bk[2]>> ELSE bk : bk \in { x \in positions : x[1] # b } }

\* generateServiceConfigs(names) is called.  Every call runs up to its
\* await; if none has to wait for the network the batch settles at once.
StartBatch(names) ==
  /\ Len(batches) < MaxBatches
  /\ \E batch \in {NewBatch(faviconCache, names)} :
       IF batch.state = "pending"
       THEN /\ batches' = Append(batches, batch)
            /\ UNCHANGED resolved
       ELSE /\ resolved' = batch
            /\ UNCHANGED batches
  /\ UNCHANGED <<faviconCache, staleProbes>>

\* The request of call k of batch b settles with `outcome`; checkFaviconExists
\* resumes, then generateServiceConfig, then Promise.all if it can settle.
\* A batch leaves `batches` when its promise settles: fulfilled by its last
\* call, or rejected by the first call that rejects.
FetchSettles(b, k, outcome) ==
  /\ b \in DOMAIN batches
  /\ k \in 1..Len(batches[b].names)
  /\ batches[b].status[k] = "pending"
  /\ LET r == ProbeSettle(outcome)
     IN faviconCache' = IF r.write
                        THEN CacheSet(faviconCache, batches[b].names[k], r.exists)
                        ELSE faviconCache
  /\ \E batch \in {ResumeCall(batches[b], k, outcome)} :
       IF batch.state = "pending"
       THEN /\ batches' = [batches EXCEPT ![b] = batch]
            /\ staleProbes' = staleProbes \ {<<b, k>>}
            /\ UNCHANGED resolved
       ELSE /\ batches' = SubSeq(batches, 1, b - 1) \o
                           SubSeq(batches, b + 1, Len(batches))
            /\ staleProbes' = WithoutBatch(staleProbes, b)
            /\ resolved' = batch

\* clearCache(); the requests in flight are noted
ClearCache ==
  /\ faviconCache' = CacheClear(faviconCache)
  /\ staleProbes' = PendingAt(batches)
  /\ UNCHANGED <<batches, resolved>>

\* The generator on its own: nothing listens to its batches
Next ==
  \/ \E names \in BatchInputs :
       StartBatch(names) /\ UNCHANGED <<selVars, outVars, uiVars, appVars, call>>
  \/ \E b \in 1..MaxBatches, k \in 1..MaxBatchLen, outcome \in Outcomes :
       FetchSettles(b, k, outcome) /\ UNCHANGED <<selVars, outVars, uiVars, appVars, call>>
  \/ ClearCache /\ UNCHANGED <<selVars, outVars, uiVars, appVars, call>>

Spec == Init /\ [][Next]_vars

\* One generateServiceConfig call at a time, over the whole table, the cache
\* cleared before another identifier is asked for.
NextInfer ==
  \/ \E serviceName \in AllIdentifiers :
       /\ batches = <<>>
       /\ DOMAIN faviconCache \subseteq {serviceName}
       /\ StartBatch(<<serviceName>>)
       /\ UNCHANGED <<selVars, outVars, uiVars, appVars, call>>
  \/ \E outcome \in Outcomes :
       FetchSettles(1, 1, outcome) /\ UNCHANGED <<selVars, outVars, uiVars, appVars, call>>
  \/ ClearCache /\ UNCHANGED <<selVars, outVars, uiVars, appVars, call>>

SpecInfer == Init /\ [][NextInfer]_vars

----------------------------------------------------------------------------
(* The application: every change of the selection dispatches              *)
(* servicesChanged, and OutputManager.handleServicesChanged regenerates    *)
(* the output from the whole selection.                                    *)

\* setButtonsState(enabled, loadingText): button.disabled = !enabled
setButtonsState(enabled) == ~enabled

\* handleServicesChanged(services), up to its await; it goes on within the
\* same task when no call of the batch has to wait for the network, and when
\* generateOutput throws for want of the template.
handleServicesChanged(services) ==
  /\ notified' = services
  /\ IF services = <<>>
     THEN /\ currentOutput' = <<>>
          /\ outputUI' = updateOutput(outputUI, <<>>)
          /\ buttonsDisabled' = setButtonsState(FALSE)
          /\ UNCHANGED genVars
     ELSE IF ~outputUI.templateLoaded
     THEN /\ UNCHANGED currentOutput
          /\ outputUI' = showError(outputUI)
          /\ buttonsDisabled' = setButtonsState(FALSE)
          /\ UNCHANGED genVars
     ELSE /\ StartBatch(services)
          /\ IF Len(batches') = Len(batches) /\ resolved'.state = "fulfilled"
             THEN /\ currentOutput' = generateOutput(resolved'.configs)
                  /\ outputUI' = updateOutput(outputUI, generateOutput(resolved'.configs))
                  /\ buttonsDisabled' = setButtonsState(TRUE)
             ELSE IF Len(batches') = Len(batches)
             THEN /\ UNCHANGED currentOutput
                  /\ outputUI' = showError(outputUI)
                  /\ buttonsDisabled' = setButtonsState(FALSE)
             ELSE /\ UNCHANGED <<currentOutput, outputUI>>
                  /\ buttonsDisabled' = setButtonsState(TRUE)

\* clearSearch: the input emptied, the dropdown hidden
clearSearch(s) == [s EXCEPT !.value = <<>>, !.show = FALSE]

\* A click on a search result: addService, which dispatches servicesChanged
\* if it changed the selection
AddService(serviceName) ==
  /\ \E sel \in {addService(selectedServices, selectedServicesOrder, serviceName)} :
       /\ sel.changed
       /\ selectedServices' = sel.selectedServices
       /\ selectedServicesOrder' = sel.selectedServicesOrder
       /\ handleServicesChanged(sel.selectedServicesOrder)
  /\ search' = clearSearch(search)
  /\ UNCHANGED <<dragTimers, theme, appVars, call>>

\* A click on a selected service's remove button
RemoveService(serviceName) ==
  /\ \E sel \in {removeService(selectedServices, selectedServicesOrder, serviceName)} :
       /\ sel.changed
       /\ selectedServices' = sel.selectedServices
       /\ selectedServicesOrder' = sel.selectedServicesOrder
       /\ handleServicesChanged(sel.selectedServicesOrder)
  /\ UNCHANGED <<dragTimers, uiVars, appVars, call>>

\* The end of a drag (ServicesManager.js): the item dragged from
\* draggedIndex is dropped where the placeholder is, and servicesChanged is
\* dispatched, also when nothing moved
DragEnd(draggedIndex, placeholderIndex) ==
  /\ draggedIndex \in 0..(Len(selectedServicesOrder) - 1)
  /\ placeholderIndex \in 0..Len(selectedServicesOrder)
  /\ \E order \in {reorderServices(selectedServicesOrder, draggedIndex,
                                   DropIndex(draggedIndex, placeholderIndex))} :
       /\ selectedServicesOrder' = order
       /\ handleServicesChanged(order)
  /\ UNCHANGED <<selectedServices, dragTimers, uiVars, appVars, call>>

\* The end of a drag in the animated revision of ServicesManager (the copy
\* in OutputManager.js): the order is changed at once, the event is left to
\* a 50 ms timer
DragEndAnimated(draggedIndex, placeholderIndex) ==
  /\ dragTimers < MaxDragTimers
  /\ draggedIndex \in 0..(Len(selectedServicesOrder) - 1)
  /\ placeholderIndex \in 0..Len(selectedServicesOrder)
  /\ selectedServicesOrder' = reorderServices(selectedServicesOrder, draggedIndex,
                                              DropIndex(draggedIndex, placeholderIndex))
  /\ dragTimers' = dragTimers + 1
  /\ UNCHANGED <<selectedServices, notified, genVars, outVars, uiVars, appVars, call>>

\* That timer fires: renderSelectedServices, triggerSelectionChange
DragTimerFires ==
  /\ dragTimers > 0
  /\ dragTimers' = dragTimers - 1
  /\ handleServicesChanged(selectedServicesOrder)
  /\ UNCHANGED <<selectedServices, selectedServicesOrder, uiVars, appVars, call>>

\* A request settles; if it was the last one of its batch,
\* handleServicesChanged resumes and stores the output it generated.
OutputFetchSettles(b, k, outcome) ==
  /\ FetchSettles(b, k, outcome)
  /\ IF Len(batches') < Len(batches) /\ resolved'.state = "fulfilled"
     THEN /\ currentOutput' = generateOutput(resolved'.configs)
          /\ outputUI' = updateOutput(outputUI, generateOutput(resolved'.configs))
          /\ buttonsDisabled' = setButtonsState(TRUE)
     ELSE IF Len(batches') < Len(batches)
     THEN /\ UNCHANGED currentOutput
          /\ outputUI' = showError(outputUI)
          /\ buttonsDisabled' = setButtonsState(FALSE)
     ELSE UNCHANGED outVars
  /\ UNCHANGED <<selVars, uiVars, appVars, call>>

\* The request of call k of batch b hangs: no response and no error will
\* ever arrive (fetch is given no timeout)
FetchHangs(b, k) ==
  /\ b \in DOMAIN batches
  /\ k \in 1..Len(batches[b].names)
  /\ batches[b].status[k] = "pending"
  /\ batches' = [batches EXCEPT ![b].status[k] = "hung"]
  /\ UNCHANGED <<faviconCache, resolved, staleProbes, selVars, outVars, uiVars, appVars, call>>

NextOutput ==
  \/ \E serviceName \in Identifiers : AddService(serviceName)
  \/ \E serviceName \in Identifiers : RemoveService(serviceName)
  \/ \E draggedIndex \in 0..Cardinality(Identifiers),
        placeholderIndex \in 0..Cardinality(Identifiers) :
       DragEnd(draggedIndex, placeholderIndex)
  \/ \E b \in 1..MaxBatches, k \in 1..MaxBatchLen, outcome \in Outcomes :
       OutputFetchSettles(b, k, outcome)
  \/ \E b \in 1..MaxBatches, k \in 1..MaxBatchLen : FetchHangs(b, k)

SpecOutput == Init /\ [][NextOutput]_vars

\* The same application on a page where meta-template.js may have failed to
\* load
SpecTemplate == InitOutput /\ [][NextOutput]_vars

\* The identifier selected and deselected while the output is exported
ExportIdentifiers == { <<"x", "a", "i">> }

\* How navigator.clipboard.writeText settles
WriteOutcomes == {"ok", "denied"}

\* A click on the copy button, which a disabled button does not take
CopyClick ==
  /\ ~buttonsDisabled
  /\ Len(outputUI.writes) + Len(outputUI.timers) < MaxFeedback
  /\ outputUI' = copyToClipboard(outputUI, currentOutput)
  /\ UNCHANGED <<genVars, selVars, currentOutput, buttonsDisabled, uiVars, appVars, call>>

\* The oldest writeText settles and copyToClipboard resumes
CopyWriteSettles(outcome) ==
  /\ outputUI.writes # <<>>
  /\ outputUI' = copyToClipboardResumes(outputUI, outcome)
  /\ UNCHANGED <<genVars, selVars, currentOutput, buttonsDisabled, uiVars, appVars, call>>

\* A click on the download button
DownloadClick ==
  /\ ~buttonsDisabled
  /\ Len(outputUI.writes) + Len(outputUI.timers) < MaxFeedback
  /\ outputUI' = downloadFile(outputUI, currentOutput)
  /\ UNCHANGED <<genVars, selVars, currentOutput, buttonsDisabled, uiVars, appVars, call>>

\* A feedback timer fires
FeedbackTimerFires(i) ==
  /\ i \in 1..Len(outputUI.timers)
  /\ outputUI' = feedbackTimer(outputUI, i)
  /\ UNCHANGED <<genVars, selVars, currentOutput, buttonsDisabled, uiVars, appVars, call>>

\* The application with its copy and download buttons
NextExport ==
  \/ \E serviceName \in ExportIdentifiers : AddService(serviceName)
  \/ \E serviceName \in ExportIdentifiers : RemoveService(serviceName)
  \/ \E b \in 1..MaxBatches, k \in 1..MaxBatchLen, outcome \in Outcomes :
       OutputFetchSettles(b, k, outcome)
  \/ CopyClick
  \/ \E outcome \in WriteOutcomes : CopyWriteSettles(outcome)
  \/ DownloadClick
  \/ \E i \in 1..MaxFeedback : FeedbackTimerFires(i)

SpecExport == InitOutput /\ [][NextExport]_vars

\* The page is being loaded: the app is constructed and waits for the catalog
InitApp ==
  /\ InitPage
  /\ outputUI = OutputManagerNew(TRUE)
  /\ app = MetaJSCustomizer
  /\ call = NoCall

\* The request for the catalog settles
CatalogFetchSettles(outcome) ==
  /\ app.fetch = "pending"
  /\ app' = fetchServices(app, outcome)
  /\ UNCHANGED <<genVars, selVars, outVars, uiVars, preview, call>>

\* The polling timer of waitForServicesLoad fires, `delay` ms after the
\* previous check
PollFires(delay) ==
  /\ app.phase = "polling"
  /\ app' = checkServices(app, app.elapsed + delay)
  /\ UNCHANGED <<genVars, selVars, outVars, uiVars, preview, call>>

\* A domainPreviewRequest event
PreviewRequest(serviceName) ==
  /\ Len(preview.requests) < MaxPreviews
  /\ preview' = showPreview(preview, serviceName)
  /\ UNCHANGED <<genVars, selVars, outVars, uiVars, app, call>>

\* The i-th fetch of domain data in flight settles
PreviewFetchSettles(i, outcome) ==
  /\ i \in 1..Len(preview.requests)
  /\ preview' = showPreviewResumes(preview, i, outcome)
  /\ UNCHANGED <<genVars, selVars, outVars, uiVars, app, call>>

\* The close button, a click on the overlay, or Escape
CloseModal ==
  /\ preview.open
  /\ preview' = closeModal(preview)
  /\ UNCHANGED <<genVars, selVars, outVars, uiVars, app, call>>

\* The app from its construction on
NextApp ==
  \/ \E outcome \in CatalogOutcomes : CatalogFetchSettles(outcome)
  \/ \E delay \in PollDelays : PollFires(delay)

\* Timers fire: a pending poll is not put off forever
SpecApp ==
  InitApp /\ [][NextApp]_vars /\ WF_vars(\E delay \in PollDelays : PollFires(delay))

\* The domain preview of the running application
NextPreview ==
  \/ \E serviceName \in Identifiers : PreviewRequest(serviceName)
  \/ \E i \in 1..MaxPreviews, outcome \in {"ok", "error"} : PreviewFetchSettles(i, outcome)
  \/ CloseModal

SpecPreview == Init /\ [][NextPreview]_vars

\* The application with the animated revision of ServicesManager
NextAnimated ==
  \/ \E serviceName \in Identifiers : AddService(serviceName)
  \/ \E serviceName \in Identifiers : RemoveService(serviceName)
  \/ \E draggedIndex \in 0..Cardinality(Identifiers),
        placeholderIndex \in 0..Cardinality(Identifiers) :
       DragEndAnimated(draggedIndex, placeholderIndex)
  \/ DragTimerFires
  \/ \E b \in 1..MaxBatches, k \in 1..MaxBatchLen, outcome \in Outcomes :
       OutputFetchSettles(b, k, outcome)

SpecAnimated == Init /\ [][NextAnimated]_vars

\* A click on the theme button
ToggleTheme ==
  /\ theme' = toggleTheme(theme)
  /\ UNCHANGED <<genVars, selVars, outVars, search, appVars, call>>

\* The system switches between its light and its dark theme
SystemThemeChanges(systemTheme) ==
  /\ systemTheme # theme.systemTheme
  /\ theme' = systemThemeChanged(theme, systemTheme)
  /\ UNCHANGED <<genVars, selVars, outVars, search, appVars, call>>

\* An input event of the search input
Input(value) ==
  /\ search.timerCount < MaxInputs
  /\ search' = onInput(search, value)
  /\ UNCHANGED <<genVars, selVars, outVars, theme, appVars, call>>

\* A pending timer of the search input fires
SearchTimerFires(timer) ==
  /\ timer \in search.timers
  /\ search' = onSearchTimer(search, timer, selectedServices)
  /\ UNCHANGED <<genVars, selVars, outVars, theme, appVars, call>>

\* The page is loaded again: every object is built anew, timers are gone,
\* localStorage is kept
Reload ==
  /\ theme' = ThemeManager(theme.savedTheme, theme.systemTheme)
  /\ search' = NoSearch
  /\ faviconCache' = [n \in {} |-> FALSE]
  /\ staleProbes' = {}
  /\ batches' = <<>>
  /\ resolved' = NoBatch
  /\ selectedServices' = {}
  /\ selectedServicesOrder' = <<>>
  /\ notified' = <<>>
  /\ dragTimers' = 0
  /\ currentOutput' = <<>>
  /\ buttonsDisabled' = TRUE
  /\ outputUI' = OutputManagerNew(outputUI.templateLoaded)
  /\ preview' = DomainPreviewManager
  /\ UNCHANGED <<app, call>>

\* The theme button and the search box
NextUI ==
  \/ ToggleTheme
  \/ \E systemTheme \in SystemThemes : SystemThemeChanges(systemTheme)
  \/ \E value \in SearchTerms : Input(value)
  \/ \E timer \in 1..MaxInputs : SearchTimerFires(timer)
  \/ Reload

SpecUI == Init /\ [][NextUI]_vars

\* A click on a service listed in the visible dropdown
ResultClick(serviceName) ==
  /\ search.show
  /\ serviceName \in Range(search.results)
  /\ AddService(serviceName)

\* The search input lost the focus 200 ms ago: hideSearchResults
BlurHides ==
  /\ search.show
  /\ search' = [search EXCEPT !.show = FALSE]
  /\ UNCHANGED <<genVars, selVars, outVars, theme, appVars, call>>

\* The search box with the selection
NextSearch ==
  \/ \E value \in SearchTerms : Input(value)
  \/ \E timer \in 1..MaxInputs : SearchTimerFires(timer)
  \/ \E serviceName \in Identifiers : ResultClick(serviceName)
  \/ \E serviceName \in Identifiers : RemoveService(serviceName)
  \/ BlurHides
  \/ \E b \in 1..MaxBatches, k \in 1..MaxBatchLen : OutputFetchSettles(b, k, "ok")

SpecSearch == Init /\ [][NextSearch]_vars

----------------------------------------------------------------------------
(* The pure methods, called on their own: parseDomain, configToString,     *)
(* configsToString.  A behaviour is one call: its arguments, then its      *)
(* return value or the error it threw.                                     *)

\* Labels a domain is made of; the empty label is what split gives around a
\* leading, trailing or doubled "."
ParseLabels ==
  { <<>>, <<"c", "o">>, <<"u", "k">>, <<"c", "o", "m">>, <<"a", "u">>, <<"x">>, <<"g", "i", "t", "h", "u", "b">>, <<"l", "o", "c", "a", "l", "h", "o", "s", "t">> }

LabelSeqs == UNION {[1..n -> ParseLabels] : n \in 1..MaxLabels}

ParseDomainCalls ==
  {[fn |-> "parseDomain", state |-> "called", labels |-> labels,
    arg |-> Join(labels, "."), result |-> <<>>] : labels \in LabelSeqs}

ConfigKeys == {"name", "tld", "sld", "domain", "alias"}

SampleValue ==
  [name |-> <<"X">>, tld |-> <<"Y">>, sld |-> <<"s">>, domain |-> <<"d", ".", "e">>, alias |-> <<"A">>]

\* Objects with a name and any of the other keys, set in any order
SampleObjects ==
  {[i \in 1..Len(keys) |-> <<keys[i], SampleValue[keys[i]]>>] :
     keys \in {s \in DistinctSeqs(ConfigKeys, Cardinality(ConfigKeys)) : "name" \in Range(s)}}

ConfigToStringCalls ==
  {[fn |-> "configToString", state |-> "called", arg |-> config, result |-> <<>>] :
     config \in SampleObjects}

\* Records as generateServiceConfig returns them
GeneratedObjects ==
  { ObjectOf(configOf[<<"x", "a", "i">>][TRUE]),
    ObjectOf(configOf[<<"g", "i", "t", "h", "u", "b">>][TRUE]),
    ObjectOf(configOf[<<"r", "e", "d", "n", "o", "t", "e">>][FALSE]) }

ConfigsToStringCalls ==
  {[fn |-> "configsToString", state |-> "called", arg |-> configs, result |-> <<>>] :
     configs \in UNION {[1..n -> GeneratedObjects] : n \in 0..MaxConfigs}}

\* Names of catalog entries: the special cases, plain words, hyphenated names
\* with and without a known TLD as their last part
CatalogNames ==
  { <<"x", "a", "i">>,
    <<"r", "e", "d", "n", "o", "t", "e">>,
    <<"c", "l", "a", "u", "d", "e", "-", "a", "i">>,
    <<"o", "p", "e", "n", "a", "i">>,
    <<"g", "i", "t", "h", "u", "b">>,
    <<"g", "o", "o", "g", "l", "e", "-", "g", "e", "m", "i", "n", "i">>,
    <<"s", "p", "o", "t", "i", "f", "y">>,
    <<"e", "x", "a", "m", "p", "l", "e", "-", "c", "o", "m">>,
    <<"m", "y", "-", "s", "i", "t", "e", "-", "i", "o">>,
    <<"a", "p", "p", "l", "e", "-", "m", "u", "s", "i", "c">>,
    <<"c", "a", "t", "e", "g", "o", "r", "y", "-", "a", "d", "s", "-", "a", "l", "l">>,
    <<"i", "n", "t", "e", "r", "n", "a", "t", "i", "o", "n", "a", "l", "-", "b", "u", "s", "i", "n", "e", "s", "s", "-", "m", "a", "c", "h", "i", "n", "e", "s", "-", "c", "o", "m">> }

ServiceDefinitionCalls ==
  {[fn |-> "serviceDefinition", state |-> "called", arg |-> name, result |-> <<>>] :
     name \in CatalogNames}

\* Selected services to reorder
OrderItems == { <<"a">>, <<"b">>, <<"c">>, <<"d">> }

\* reorderServices on a selection order, both indices within the array
ReorderServicesCalls ==
  {[fn |-> "reorderServices", state |-> "called", arg |-> arg, result |-> <<>>] :
     arg \in UNION {[order : {order}, fromIndex : 0..(Len(order) - 1),
                     toIndex : 0..(Len(order) - 1)] :
                      order \in DistinctSeqs(OrderItems, MaxOrderLen)}}

InitPure ==
  /\ InitPage
  /\ app = AppReady
  /\ outputUI = OutputManagerNew(TRUE)
  /\ call \in ParseDomainCalls \cup ConfigToStringCalls \cup ConfigsToStringCalls
              \cup ServiceDefinitionCalls \cup ReorderServicesCalls

ParseDomainReturns ==
  /\ call.fn = "parseDomain"
  /\ call.state = "called"
  /\ LET r == parseDomain(call.arg)
     IN call' = [call EXCEPT !.state = IF r.threw THEN "threw" ELSE "returned",
                             !.result = r]
  /\ UNCHANGED <<genVars, selVars, outVars, uiVars, appVars>>

ConfigToStringReturns ==
  /\ call.fn = "configToString"
  /\ call.state = "called"
  /\ call' = [call EXCEPT !.state = "returned", !.result = configToString(call.arg)]
  /\ UNCHANGED <<genVars, selVars, outVars, uiVars, appVars>>

ConfigsToStringReturns ==
  /\ call.fn = "configsToString"
  /\ call.state = "called"
  /\ call' = [call EXCEPT !.state = "returned", !.result = configsToString(call.arg)]
  /\ UNCHANGED <<genVars, selVars, outVars, uiVars, appVars>>

\* fetchServices maps one catalog entry to its service definition
ServiceDefinitionReturns ==
  /\ call.fn = "serviceDefinition"
  /\ call.state = "called"
  /\ call' = [call EXCEPT !.state = "returned", !.result = serviceDefinition(call.arg)]
  /\ UNCHANGED <<genVars, selVars, outVars, uiVars, appVars>>

\* reorderServices(fromIndex, toIndex) on this.selectedServicesOrder
ReorderServicesReturns ==
  /\ call.fn = "reorderServices"
  /\ call.state = "called"
  /\ call' = [call EXCEPT !.state = "returned",
                          !.result = reorderServices(call.arg.order, call.arg.fromIndex,
                                                     call.arg.toIndex)]
  /\ UNCHANGED <<genVars, selVars, outVars, uiVars, appVars>>

NextPure ==
  \/ ReorderServicesReturns
  \/ ParseDomainReturns
  \/ ConfigToStringReturns
  \/ ConfigsToStringReturns
  \/ ServiceDefinitionReturns

SpecPure == InitPure /\ [][NextPure]_vars

----------------------------------------------------------------------------
(* What the properties below speak about *)

\* The batches visible in a state: the outstanding ones and the last settled
VisibleBatches == {batches[b] : b \in DOMAIN batches} \cup {resolved}

\* The generateServiceConfig calls that have returned: the identifier, what
\* checkFaviconExists answered, how the batch completed, and the record
ReturnedCalls ==
  UNION {{[name |-> batch.names[k], exists |-> batch.exists[k],
           completion |-> batch.completion, config |-> batch.configs[k]] :
            k \in {j \in 1..Len(batch.names) : batch.status[j] = "fulfilled"}} :
         batch \in VisibleBatches}

\* The requests in flight for an identifier, as <<slot, index>>
InFlight(serviceName) ==
  {<<b, k>> \in (DOMAIN batches) \X (1..MaxBatchLen) :
     /\ k <= Len(batches[b].names)
     /\ batches[b].names[k] = serviceName
     /\ batches[b].status[k] = "pending"}

\* The batch that a StartBatch step has just issued
Issued ==
  IF Len(batches') > Len(batches) THEN batches'[Len(batches')] ELSE resolved'

\* Batch b as it is after a step that resumed one of its calls: still
\* outstanding at its place, or settled
After(b) == IF Len(batches') = Len(batches) THEN batches'[b] ELSE resolved'

Rednote == <<"r", "e", "d", "n", "o", "t", "e">>
Xai == <<"x", "a", "i">>
Github == <<"g", "i", "t", "h", "u", "b">>
AppleMusic == <<"a", "p", "p", "l", "e", "-", "m", "u", "s", "i", "c">>
OpenAI == <<"o", "p", "e", "n", "a", "i">>
Localhost == <<"l", "o", "c", "a", "l", "h", "o", "s", "t">>

----------------------------------------------------------------------------
(* C1..C5: the record generateServiceConfig returns (under SpecInfer) *)

\* C1: a call whose icon check answered "no icon" returns exactly
\* { name: identifier, domain: D }, D the table's value for a table key and
\* identifier + ".com" otherwise.
C1_NoIconFullDomain ==
  \A c \in ReturnedCalls :
    ~c.exists => c.config = [name |-> c.name, domain |-> DomainOfRecord(c.name)]

\* rednote without icon has returned { name: "rednote", domain: "xiaohongshu.com" }
C1_Witness ==
  \E c \in ReturnedCalls :
    /\ c.name = Rednote /\ ~c.exists /\ c.completion = "in-order"
    /\ c.config = [name |-> Rednote, domain |-> specialDomains[Rednote]]

C4_RecordShape ==
  \A c \in ReturnedCalls :
    LET keys == DOMAIN c.config
    IN /\ "name" \in keys
       /\ "domain" \in keys => ("tld" \notin keys /\ "sld" \notin keys)
       /\ "domain" \notin keys => "tld" \in keys
       /\ keys \in {{"name", "domain"}, {"name", "tld"}, {"name", "sld", "tld"}}

\* apple-music with icon has returned the three-key form
C4_Witness ==
  \E c \in ReturnedCalls :
    /\ c.name = AppleMusic /\ c.exists
    /\ DOMAIN c.config = {"name", "sld", "tld"}

\* Domains parseDomain throws for, and some it does not
DomainSamples ==
  { Localhost, <<>>, Com, <<"x", ".", "a", "i">>, <<"e", "x", "a", "m", "p", "l", "e", ".", "c", "o", ".", "u", "k">> }

\* C5: no generateServiceConfig call rejects, whatever its request came to:
\* every call that has resumed holds a record for its identifier; and where
\* parseDomain throws, the record built is the full-domain form.
C5_NeverRejects ==
  /\ \A batch \in VisibleBatches :
       /\ batch.state # "rejected"
       /\ \A k \in 1..Len(batch.names) :
            /\ batch.status[k] # "rejected"
            /\ batch.status[k] # "pending" =>
                 /\ batch.status[k] = "fulfilled"
                 /\ "name" \in DOMAIN batch.configs[k]
                 /\ batch.configs[k].name = batch.names[k]
  /\ \A serviceName \in AllIdentifiers, domain \in DomainSamples :
       parseDomain(domain).threw =>
         ConfigFromDomain(serviceName, domain, TRUE) =
           [name |-> serviceName, domain |-> domain]

\* A call that had to ask the network has returned "no icon" with a record,
\* and parseDomain does throw for one of the sample domains
C5_Witness ==
  /\ \E c \in ReturnedCalls :
       /\ c.completion = "in-order" /\ ~c.exists
       /\ c.name = OpenAI /\ "domain" \in DOMAIN c.config
  /\ parseDomain(Localhost).threw

----------------------------------------------------------------------------
(* C6..C10: the cache and the batches (under Spec) *)

\* C6: a request that ends in a network error or a non-2xx response makes
\* checkFaviconExists return false, not throw, and store false in the cache
\* for that identifier.
C6_FailedProbeIsFalse ==
  [][\A b \in DOMAIN batches :
       \A k \in 1..Len(batches[b].names) :
         (/\ batches[b].status[k] = "pending"
          /\ After(b).names = batches[b].names
          /\ After(b).status[k] # "pending") =>
           \A outcome \in {"non2xx", "error"} :
             FetchSettles(b, k, outcome) =>
               /\ After(b).status[k] = "fulfilled"
               /\ After(b).exists[k] = FALSE
               /\ batches[b].names[k] \in DOMAIN faviconCache'
               /\ faviconCache'[batches[b].names[k]] = FALSE]_vars

\* A call that asked the network has returned false and the cache holds false
C6_Witness ==
  \E c \in ReturnedCalls :
    /\ c.completion # "immediate" /\ ~c.exists
    /\ c.name \in DOMAIN faviconCache
    /\ faviconCache[c.name] = FALSE

\* C7: a call for an identifier that is in the cache returns the cached
\* boolean and sends no request.
C7_CacheHitNoProbe ==
  [][\A names \in BatchInputs :
       (Issued.names = names /\ StartBatch(names)) =>
         \A k \in 1..Len(names) :
           names[k] \in DOMAIN faviconCache =>
             /\ Issued.status[k] = "fulfilled"
             /\ Issued.exists[k] = faviconCache[names[k]]
             /\ InFlight(names[k])' = InFlight(names[k])]_vars

\* A call has returned the cached value of its identifier at once, no
\* request in flight for it
C7_Witness ==
  \E c \in ReturnedCalls :
    /\ c.completion = "immediate"
    /\ c.name \in DOMAIN faviconCache
    /\ c.exists = faviconCache[c.name]
    /\ InFlight(c.name) = {}

\* C8 as stated: the cached value of an identifier never changes once it
\* has been written.
C8_ValueNeverChanges ==
  [][\A n \in DOMAIN faviconCache \cap DOMAIN faviconCache' :
       faviconCache'[n] = faviconCache[n]]_vars

\* C8 amended: the cached value of an identifier changes only when a request
\* for that identifier, in flight since before the value was written,
\* settles, and the value becomes that request's own result.
C8_LastWriteWins ==
  [][\A n \in DOMAIN faviconCache \cap DOMAIN faviconCache' :
       faviconCache'[n] # faviconCache[n] =>
         \E bk \in InFlight(n), outcome \in Outcomes :
           /\ FetchSettles(bk[1], bk[2], outcome)
           /\ faviconCache'[n] = (outcome = "ok")]_vars

\* An identifier is cached while another request for it is still in flight
C8_Witness ==
  \E n \in DOMAIN faviconCache : InFlight(n) # {}

\* C9 as stated: no step removes an identifier from the cache.
C9_AppendOnly ==
  [][DOMAIN faviconCache \subseteq DOMAIN faviconCache']_vars

\* C9 amended: only clearCache removes identifiers from the cache (and it
\* removes them all); every other step keeps every cached identifier.
C9_OnlyClearCacheRemoves ==
  [][(~(DOMAIN faviconCache \subseteq DOMAIN faviconCache')) =>
       (ClearCache /\ DOMAIN faviconCache' = {})]_vars

\* Both identifiers are cached: the second write kept the first entry
C9_Witness ==
  Cardinality(DOMAIN faviconCache) >= 2

\* C10: a fulfilled batch holds one record per identifier, the k-th record
\* being the one of the k-th identifier, whatever the completion order.
C10_InputOrder ==
  resolved.state = "fulfilled" =>
    /\ Len(resolved.configs) = Len(resolved.names)
    /\ \A k \in 1..Len(resolved.names) :
         resolved.configs[k] = BuildConfig(resolved.names[k], resolved.exists[k])

\* A batch of two has been returned whose second call returned before its first
C10_Witness ==
  /\ resolved.state = "fulfilled"
  /\ Len(resolved.names) = 2
  /\ resolved.completion = "reordered"

----------------------------------------------------------------------------
(* parseDomain, configToString and configsToString on their own (SpecPure) *)

\* The call of `fn` has ended (returned or thrown)
Ended(fn) == call.fn = fn /\ call.state # "called"

\* The compound suffixes of the allow-list, as pairs of labels
CompoundSuffixLabels ==
  { <<<<"c", "o">>, <<"u", "k">>>>, <<<<"c", "o", "m">>, <<"a", "u">>>>, <<<<"c", "o">>, <<"j", "p">>>>,
    <<<<"c", "o">>, <<"k", "r">>>>, <<<<"c", "o", "m">>, <<"b", "r">>>>, <<<<"c", "o">>, <<"i", "n">>>> }

\* C15 (as stated): for every domain with exactly two dot-separated labels
\* parseDomain returns sld = label[0] and tld = label[1].
C15_TwoLabels ==
  (Ended("parseDomain") /\ Len(call.labels) = 2) =>
    /\ call.state = "returned"
    /\ call.result.sld = call.labels[1]
    /\ call.result.tld = call.labels[2]

\* C15 (amended): for every domain with exactly two dot-separated labels
\* that is not itself a compound suffix of the allow-list, parseDomain
\* returns sld = label[0] and tld = label[1].
C15_TwoLabelsNotCompound ==
  (Ended("parseDomain") /\ Len(call.labels) = 2
     /\ call.labels \notin CompoundSuffixLabels) =>
    /\ call.state = "returned"
    /\ call.result.sld = call.labels[1]
    /\ call.result.tld = call.labels[2]

C15_Witness ==
  /\ call.fn = "parseDomain"
  /\ call.state = "returned"
  /\ call.labels = <<<<"g", "i", "t", "h", "u", "b">>, <<"c", "o", "m">>>>
  /\ call.result.sld = <<"g", "i", "t", "h", "u", "b">>

C17_ThrowsIffFewerThanTwoLabels ==
  Ended("parseDomain") =>
    /\ (call.state = "threw") <=> (Len(call.labels) < 2)
    /\ (call.state = "returned") <=> (Len(call.labels) >= 2)

C17_Witness ==
  /\ call.fn = "parseDomain"
  /\ call.state = "threw"
  /\ call.arg = <<"l", "o", "c", "a", "l", "h", "o", "s", "t">>

\* C18: whenever parseDomain returns a result, sld and tld are both
\* non-empty, for every input string on which it does not throw.
C18_PartsNonEmpty ==
  (call.fn = "parseDomain" /\ call.state = "returned") =>
    /\ call.result.sld # <<>>
    /\ call.result.tld # <<>>

\* The text of an object whose keys are all present with non-empty values,
\* written out key by key in the order name, tld, sld, domain, alias
C19_Expected(object) ==
  LET Present(key) == HasKey(object, key)
      keys == SelectSeq(<<"name", "tld", "sld", "domain", "alias">>, Present)
      RECURSIVE Text(_)
      Text(i) ==
        KeyText[keys[i]] \o <<":", " ", "\"">> \o Get(object, keys[i]) \o <<"\"">>
        \o (IF i < Len(keys) THEN <<",", " ">> \o Text(i + 1) ELSE <<>>)
  IN <<"{", " ">> \o Text(1) \o <<" ", "}">>

\* C19: configToString renders a record on one line, keys in the order
\* name, tld, sld, domain, alias whatever the order they were set in,
\* absent keys left out, every value in double quotes, no trailing
\* separator; a record with only name X and tld Y gives { name: "X", tld: "Y" }.
C19_FixedKeyOrder ==
  Ended("configToString") =>
    /\ call.state = "returned"
    /\ call.result = C19_Expected(call.arg)
    /\ \A i \in 1..Len(call.result) : call.result[i] # "\n"
    /\ {call.arg[i][1] : i \in 1..Len(call.arg)} = {"name", "tld"} =>
         call.result = <<"{", " ", "n", "a", "m", "e", ":", " ", "\"", "X", "\"", ",", " ", "t", "l", "d", ":", " ", "\"", "Y", "\"", " ", "}">>

C19_Witness ==
  /\ call.fn = "configToString"
  /\ call.state = "returned"
  /\ call.arg = <<<<"sld", <<"s">>>>, <<"tld", <<"Y">>>>, <<"name", <<"X">>>>>>
  /\ call.result = <<"{", " ", "n", "a", "m", "e", ":", " ", "\"", "X", "\"", ",", " ", "t", "l", "d", ":", " ", "\"", "Y", "\"", ",", " ", "s", "l", "d", ":", " ", "\"", "s", "\"", " ", "}">>

\* C20: configsToString joins the per-record strings in input order with a
\* comma and a newline, every record (the first too) behind the same two
\* spaces, nothing after the last record; the empty list gives "".
C20_JoinedInOrder ==
  Ended("configsToString") =>
    LET configs == call.arg
        RECURSIVE Text(_)
        Text(i) ==
          IF i > Len(configs) THEN <<>>
          ELSE <<" ", " ">> \o configToString(configs[i])
               \o (IF i < Len(configs) THEN <<",", "\n">> ELSE <<>>) \o Text(i + 1)
    IN /\ call.state = "returned"
       /\ call.result = Text(1)
       /\ configs = <<>> => call.result = <<>>

C20_Witness ==
  /\ call.fn = "configsToString"
  /\ call.state = "returned"
  /\ Len(call.arg) = 2
  /\ call.arg[1] # call.arg[2]
  /\ call.result = <<" ", " ">> \o configToString(call.arg[1]) \o <<",", "\n">>
                   \o <<" ", " ">> \o configToString(call.arg[2])

----------------------------------------------------------------------------
(* generateServiceConfig called again, and the name it emits (SpecInfer) *)

\* C13: a generateServiceConfig call for an identifier the cache holds,
\* made after a call for the same identifier has returned, returns a record
\* equal to that call's record and leaves the cache as it was.
C13_Idempotent ==
  [][\A serviceName \in AllIdentifiers :
       (/\ resolved.state = "fulfilled"
        /\ resolved.names = <<serviceName>>
        /\ serviceName \in DOMAIN faviconCache
        /\ StartBatch(<<serviceName>>)) =>
         /\ Issued.state = "fulfilled"
         /\ Issued.names = <<serviceName>>
         /\ Issued.configs = resolved.configs
         /\ DOMAIN Issued.configs[1] = DOMAIN resolved.configs[1]
         /\ faviconCache' = faviconCache]_vars

\* A second call has returned: it found the identifier in the cache
C13_Witness ==
  /\ resolved.state = "fulfilled"
  /\ resolved.completion = "immediate"
  /\ Len(resolved.names) = 1
  /\ resolved.names[1] \in DOMAIN faviconCache
  /\ resolved.configs[1] = BuildConfig(resolved.names[1], faviconCache[resolved.names[1]])

\* C14: with the icon present, github yields { name: "GitHub", tld: "com" }
\* and xai yields { name: "xAI", sld: "x", tld: "ai" }: the name emitted is
\* the display name, not the raw identifier.
C14_DisplayNameOverride ==
  \A r \in ReturnedCalls :
    r.exists =>
      /\ r.name = Github => r.config = [name |-> <<"G", "i", "t", "H", "u", "b">>, tld |-> Com]
      /\ r.name = Xai => r.config = [name |-> <<"x", "A", "I">>, sld |-> <<"x">>, tld |-> <<"a", "i">>]

----------------------------------------------------------------------------
(* The output and the batches behind it (SpecOutput) *)

\* The outputs generateOutput can give for a selection, one for each way
\* the icon checks of its identifiers can answer
PossibleOutputs(services) ==
  {generateOutput([k \in 1..Len(services) |-> BuildConfig(services[k], exists[k])]) :
     exists \in [1..Len(services) -> BOOLEAN]}

\* s contains sub as a substring
Contains(s, sub) ==
  \E i \in 1..(Len(s) - Len(sub) + 1) : SubSeq(s, i, i + Len(sub) - 1) = sub

\* C11: once every batch issued for a selection change has completed, the
\* output applied last (currentOutput) is the one generated from the latest
\* selection, that of the batch issued last.
C11_LastIssuedBatchWins ==
  (batches = <<>> /\ selectedServicesOrder # <<>>) =>
    currentOutput \in PossibleOutputs(selectedServicesOrder)

\* C12: when the probe of one identifier of a batch hangs and the probes of
\* the batch's other identifiers have completed, the records of the other
\* identifiers are in the output.
C12_HangStallsOnlyItsRecord ==
  \A b \in DOMAIN batches :
    LET batch == batches[b]
        calls == 1..Len(batch.names)
    IN (/\ \E k \in calls : batch.status[k] = "hung"
        /\ \A k \in calls : batch.status[k] \in {"hung", "fulfilled"}) =>
         \A k \in calls :
           batch.status[k] = "fulfilled" =>
             Contains(currentOutput, configToString(ObjectOf(batch.configs[k])))

----------------------------------------------------------------------------
(* C21 - C30: the selection, the theme, the buttons, the search box *)

NoDuplicates(array) ==
  \A i, j \in 1..Len(array) : i # j => array[i] # array[j]

\* C21: the selection has unique membership: selectedServicesOrder holds no
\* identifier twice, its elements are those of the selectedServices set,
\* addService of a selected identifier changes neither, and reorderServices
\* with fromIndex within the array (and any toIndex) keeps both properties.
C21_UniqueMembership ==
  /\ NoDuplicates(selectedServicesOrder)
  /\ Range(selectedServicesOrder) = selectedServices
  /\ \A serviceName \in selectedServices :
       LET sel == addService(selectedServices, selectedServicesOrder, serviceName)
       IN /\ sel.selectedServices = selectedServices
          /\ sel.selectedServicesOrder = selectedServicesOrder
  /\ \A fromIndex \in 0..(Len(selectedServicesOrder) - 1) :
       \A toIndex \in (0 - Len(selectedServicesOrder) - 1)..(Len(selectedServicesOrder) + 1) :
         LET order == reorderServices(selectedServicesOrder, fromIndex, toIndex)
         IN NoDuplicates(order) /\ Range(order) = selectedServices

\* Two identifiers selected
C21_Witness ==
  /\ Len(selectedServicesOrder) = 2
  /\ Cardinality(selectedServices) = 2
  /\ notified = selectedServicesOrder

\* C22: every operation that changes the selection dispatches servicesChanged
\* within the operation itself, with the selection order as its payload: in
\* no state between two operations does the order differ from the payload of
\* the last notification.
C22_NotifiedWithinOperation ==
  notified = selectedServicesOrder

\* The preference that follows p in the order auto, light, dark, auto
NextTheme(p) ==
  CASE p = "auto" -> "light"
    [] p = "light" -> "dark"
    [] p = "dark" -> "auto"

\* C23: a ThemeManager built with nothing stored has the preference auto,
\* each toggleTheme moves the preference one place on in the order auto,
\* light, dark, auto, and two more toggles bring back the theme state the
\* toggle started from.
C23_ToggleCycles ==
  [][/\ \A systemTheme \in SystemThemes :
          currentTheme(ThemeManager(NoItem, systemTheme)) = "auto"
     /\ ToggleTheme =>
          /\ currentTheme(theme') = NextTheme(currentTheme(theme))
          /\ toggleTheme(toggleTheme(theme')) = theme]_vars

\* Two toggles after the first visit
C23_Witness ==
  /\ currentTheme(theme) = "dark"
  /\ theme.savedTheme = "dark"

\* C24: the data-theme attribute is the system theme while the preference is
\* auto and the preference itself while it is light or dark, whatever the
\* system theme has become.
C24_DataTheme ==
  IF currentTheme(theme) = "auto"
  THEN theme.dataTheme = theme.systemTheme
  ELSE theme.dataTheme = currentTheme(theme)

\* The system went dark under the preference auto
C24_WitnessAuto ==
  /\ currentTheme(theme) = "auto"
  /\ theme.systemTheme = "dark"
  /\ theme.dataTheme = "dark"

\* C25: the stored "theme" item is missing exactly when the preference is
\* auto and is the preference otherwise, and a ThemeManager built on that
\* storage has the same preference.
C25_PreferenceSurvivesReload ==
  /\ (theme.savedTheme = NoItem) <=> (currentTheme(theme) = "auto")
  /\ currentTheme(theme) # "auto" => theme.savedTheme = currentTheme(theme)
  /\ ThemeManager(theme.savedTheme, theme.systemTheme).currentThemeIndex
       = theme.currentThemeIndex

\* The preference light, stored, the system being dark
C25_WitnessStored ==
  /\ currentTheme(theme) = "light"
  /\ theme.savedTheme = "light"
  /\ theme.systemTheme = "dark"

\* C26: when the selection is empty and no batch is outstanding, the output
\* is the empty string and the copy and download buttons are disabled.
C26_EmptySelectionEmptyOutput ==
  (selectedServicesOrder = <<>> /\ batches = <<>>) =>
    (currentOutput = <<>> /\ buttonsDisabled)

\* A step in which servicesChanged is dispatched
Notifies ==
  \/ \E serviceName \in Identifiers : AddService(serviceName)
  \/ \E serviceName \in Identifiers : RemoveService(serviceName)
  \/ \E draggedIndex \in 0..Cardinality(Identifiers),
        placeholderIndex \in 0..Cardinality(Identifiers) :
       DragEnd(draggedIndex, placeholderIndex)

\* The calls of the batches bs whose request is in flight
PendingCalls(bs) ==
  UNION {{<<b, k>> : k \in {j \in 1..Len(bs[b].names) : bs[b].status[j] = "pending"}} :
         b \in DOMAIN bs}

\* C27: a notification with a non-empty list starts one batch with one
\* generateServiceConfig call for each identifier of the list, in the list's
\* order; a notification with the empty list starts none; and a step without
\* a notification starts no batch and no request.
C27_NotificationStartsInference ==
  [][/\ (Notifies /\ notified' # <<>>) =>
          /\ Issued.names = notified'
          /\ Len(Issued.status) = Len(notified')
          /\ Len(Issued.configs) = Len(notified')
          /\ Len(batches') <= Len(batches) + 1
     /\ (Notifies /\ notified' = <<>>) => UNCHANGED genVars
     /\ ~Notifies =>
          /\ Len(batches') <= Len(batches)
          /\ Cardinality(PendingCalls(batches')) <= Cardinality(PendingCalls(batches))]_vars

\* C27, with the template: a notification with a non-empty list on a page
\* whose META.js template was loaded starts one batch with one
\* generateServiceConfig call for each identifier of the list, in the list's
\* order; without the template, or with the empty list, it starts none; and a
\* step without a notification starts no batch and no request.
C27_StartsInferenceWithTemplate ==
  [][/\ (Notifies /\ notified' # <<>> /\ outputUI.templateLoaded) =>
          /\ Issued.names = notified'
          /\ Len(Issued.status) = Len(notified')
          /\ Len(Issued.configs) = Len(notified')
          /\ Len(batches') <= Len(batches) + 1
     /\ (Notifies /\ (notified' = <<>> \/ ~outputUI.templateLoaded)) => UNCHANGED genVars
     /\ ~Notifies =>
          /\ Len(batches') <= Len(batches)
          /\ Cardinality(PendingCalls(batches')) <= Cardinality(PendingCalls(batches))]_vars

\* A batch for the two selected identifiers is outstanding, both requests in
\* flight
C27_Witness ==
  /\ Len(notified) = 2
  /\ \E b \in DOMAIN batches :
       /\ batches[b].names = notified
       /\ \A k \in 1..2 : batches[b].status[k] = "pending"

\* C30: while the copy and download buttons are enabled, the output is not
\* empty and is an output of the selection of the last notification.
C30_EnabledMeansCurrent ==
  ~buttonsDisabled =>
    /\ currentOutput # <<>>
    /\ currentOutput \in PossibleOutputs(notified)

\* C28: an input event runs no search and leaves one timer pending, its own,
\* whatever was pending before; when the timer fires handleSearch runs with
\* the value of the last input event and no timer is left: a burst of input
\* events gives one handleSearch call, with the last value.
C28_Debounced ==
  [][/\ search'.timerCount > search.timerCount =>
          /\ search'.handled = search.handled
          /\ search'.timers = {search'.searchTimeout}
     /\ Len(search'.handled) > Len(search.handled) =>
          /\ search'.handled = Append(search.handled, search.value)
          /\ search'.value = search.value
          /\ search'.timers = {}]_vars

\* A burst of two input events, then one search, for the last value "AI",
\* which shows both services
C28_Witness ==
  /\ search.timerCount = 2
  /\ search.timers = {}
  /\ search.handled = << <<"A", "I">> >>
  /\ search.show
  /\ search.results = allServices

\* C29: a service definition built by the catalog heuristics of script.js
\* that has a domain has neither a tld nor an sld.
C29_DomainExcludesTldSld ==
  (Ended("serviceDefinition") /\ HasKey(call.result, "domain")) =>
    (~HasKey(call.result, "tld") /\ ~HasKey(call.result, "sld"))

----------------------------------------------------------------------------
(* C31 - C38 *)

\* The domain a record denotes: its domain, or else its sld (the name when
\* there is none) and its tld
DenotedDomain(config) ==
  IF "domain" \in DOMAIN config THEN config.domain
  ELSE (IF "sld" \in DOMAIN config THEN config.sld ELSE config.name)
       \o <<".">> \o config.tld

\* C31: for every table entry, the record returned when the icon exists
\* denotes the entry's domain-of-record, as the record returned when the icon
\* does not exist does.
C31_SameDomain ==
  \A c \in ReturnedCalls :
    c.name \in DOMAIN specialDomains =>
      DenotedDomain(c.config) = specialDomains[c.name]

\* The array without its item at index i (from 0)
Without(array, i) == SubSeq(array, 1, i) \o SubSeq(array, i + 2, Len(array))

\* C32: with both indices within the array, reorderServices gives an order
\* of the same length and the same members, with the item that was at
\* fromIndex now at toIndex and the other items in the order they were in;
\* with equal indices the order is unchanged.
C32_MovesOneItem ==
  Ended("reorderServices") =>
    LET order == call.arg.order
        fromIndex == call.arg.fromIndex
        toIndex == call.arg.toIndex
    IN /\ Len(call.result) = Len(order)
       /\ Range(call.result) = Range(order)
       /\ NoDuplicates(call.result)
       /\ call.result[toIndex + 1] = order[fromIndex + 1]
       /\ Without(call.result, toIndex) = Without(order, fromIndex)
       /\ fromIndex = toIndex => call.result = order

\* The first of three items was moved to the end
C32_Witness ==
  /\ Ended("reorderServices")
  /\ call.arg = [order |-> << <<"a">>, <<"b">>, <<"c">> >>, fromIndex |-> 0, toIndex |-> 2]
  /\ call.result = << <<"b">>, <<"c">>, <<"a">> >>

\* Outputs that are empty or only whitespace
BlankOutputs == { <<>>, <<" ">>, <<" ", " ">> }

\* C33: a click on the copy or the download button while currentOutput is
\* blank starts no clipboard write and no download, shows the button's error
\* feedback and leaves currentOutput as it is; no write in flight, clipboard
\* content or download is ever blank; and both methods do the same for an
\* output of whitespace only.
C33_NoBlankExport ==
  [][/\ (CopyClick /\ IsBlank(currentOutput)) =>
          /\ outputUI'.writes = outputUI.writes
          /\ outputUI'.clipboard = outputUI.clipboard
          /\ outputUI'.downloaded = outputUI.downloaded
          /\ outputUI'.copyButton.html = "Copy Failed"
          /\ "btn-danger" \in outputUI'.copyButton.classes
          /\ currentOutput' = currentOutput
     /\ (DownloadClick /\ IsBlank(currentOutput)) =>
          /\ outputUI'.writes = outputUI.writes
          /\ outputUI'.clipboard = outputUI.clipboard
          /\ outputUI'.downloaded = outputUI.downloaded
          /\ outputUI'.downloadButton.html = "Download Failed"
          /\ "btn-danger" \in outputUI'.downloadButton.classes
          /\ currentOutput' = currentOutput
     /\ \A i \in 1..Len(outputUI'.writes) : ~IsBlank(outputUI'.writes[i])
     /\ outputUI'.clipboard.written => ~IsBlank(outputUI'.clipboard.text)
     /\ outputUI'.downloaded.written => ~IsBlank(outputUI'.downloaded.text)
     /\ \A blank \in BlankOutputs :
          /\ copyToClipboard(outputUI, blank) = showCopyError(outputUI)
          /\ downloadFile(outputUI, blank) = showDownloadError(outputUI)]_vars

\* The copy button was clicked while the first batch was outstanding: it
\* shows its error feedback and nothing was written
C33_Witness ==
  /\ currentOutput = <<>>
  /\ ~buttonsDisabled
  /\ outputUI.copyButton.html = "Copy Failed"
  /\ ~outputUI.clipboard.written
  /\ outputUI.writes = <<>>

\* A step in which generateOutput throws "Template not loaded"
GenerationFails ==
  /\ Notifies
  /\ notified' # <<>>
  /\ ~outputUI.templateLoaded

\* C34: when generateOutput throws for a non-empty selection,
\* handleServicesChanged ends with the error panel shown, the buttons
\* disabled and currentOutput unchanged, and no inference was started.
C34_GenerationError ==
  [][GenerationFails =>
       /\ outputUI'.display = "error"
       /\ buttonsDisabled'
       /\ currentOutput' = currentOutput
       /\ UNCHANGED genVars]_vars

\* After a service was added on a page without the template
C34_Witness ==
  /\ ~outputUI.templateLoaded
  /\ notified # <<>>
  /\ outputUI.display = "error"
  /\ buttonsDisabled

\* C35: while the dropdown is visible, no service it lists is selected.
C35_ListedNotSelected ==
  search.show =>
    \A i \in 1..Len(search.results) : search.results[i] \notin selectedServices

\* One service is selected and the dropdown lists the other one
C35_Witness ==
  /\ search.show
  /\ Len(search.results) = 1
  /\ Cardinality(selectedServices) = 1

\* C36 as stated: initialization ends with isReady() true once the catalog
\* holds at least one service; it ends with the initialization error and
\* isReady() false only if the catalog never becomes non-empty.
C36_ReadyOnceLoaded ==
  (app.phase # "polling" /\ isLoaded(app)) => (app.isInitialized /\ ~app.error)

\* C36, amended: initialization always terminates.  It ends with isReady()
\* true exactly when a poll of waitForServicesLoad finds the catalog
\* non-empty; a poll that finds it empty more than 10 s after the start ends
\* it with the initialization error shown and isReady() false, and nothing
\* changes that afterwards; no behaviour polls forever.
C36_InitTerminates ==
  /\ [](app.phase = "ready" =>
          (isLoaded(app) /\ app.isInitialized /\ ~app.loading /\ ~app.error))
  /\ [](app.phase = "failed" =>
          (~app.isInitialized /\ app.error /\ app.elapsed > timeout))
  /\ [](app.phase = "polling" => (~app.isInitialized /\ ~app.error))
  /\ [][(app.phase = "polling" /\ app'.phase = "ready") => isLoaded(app)]_vars
  /\ [][(app.phase = "polling" /\ app'.phase = "failed") => ~isLoaded(app)]_vars
  /\ [][app.phase # "polling" =>
          (app'.phase = app.phase /\ app'.isInitialized = app.isInitialized)]_vars
  /\ <>(app.phase # "polling")

\* Initialization has failed at the timeout, and the catalog arrived later
C36_Witness ==
  /\ app.phase = "failed"
  /\ ~app.isInitialized
  /\ app.error
  /\ app.fetch = "services"

\* C37: a probe that was in flight when clearCache ran leaves the favicon
\* cache as it is when it settles.
C37_StaleProbeLeavesCache ==
  [][\A b \in 1..MaxBatches, k \in 1..MaxBatchLen, outcome \in Outcomes :
       (FetchSettles(b, k, outcome) /\ <<b, k>> \in staleProbes) =>
         faviconCache' = faviconCache]_vars

\* C38: at most one of the loading indicator, the domains list and the error
\* panel of the domain preview is displayed.
C38_OnePanel ==
  /\ ~(preview.loading /\ preview.domainsList)
  /\ ~(preview.loading /\ preview.error)
  /\ ~(preview.domainsList /\ preview.error)

====
